---- MODULE Spec2Model ----
(***************************************************************************)
(* Notes editor: the vault store (path confinement, entry primitives, the  *)
(* per-person file endpoints) and the markdown section engine (sections,   *)
(* incomplete todos, pinned entries).                                       *)
(*                                                                         *)
(* A Python str is a sequence of one-character strings; a filesystem path  *)
(* is a sequence of segments (each a str); the filesystem is a function    *)
(* from absolute paths to entries.                                         *)
(***************************************************************************)
EXTENDS Integers, Sequences, FiniteSets, TLC

VARIABLES fs, last, mem

vars == <<fs, last, mem>>

(***************************************************************************)
(* Bounds                                                                  *)
(***************************************************************************)
\* longest request path, in tokens, handed to resolve_path
MaxPathTokens == 4
\* most files the store operations may add to the initial filesystem
MaxNewFiles == 1
\* longest file content that the store operations may build
MaxFileLen == 2
\* most lines of a note built from the section vocabulary
MaxSectionLines == 3
\* most lines under the todos header of a note built from the todo vocabulary
MaxTodoLines == 3
\* most lines under the custom notes header of a note built from the entry vocabulary
MaxPinnedLines == 4
\* most lines of a note built from the vocabulary of the line mutators
MaxNoteLines == 2

MaxCommits == 4

MaxSpawned == 5

(***************************************************************************)
(* Python str helpers                                                      *)
(***************************************************************************)
Max(S) == CHOOSE x \in S : \A y \in S : y <= x

Min(S) == CHOOSE x \in S : \A y \in S : x <= y

\* str.isspace for the characters of the model
IsSpace(c) == c \in {" ", "\t", "\n", "\r", "\f"}

UpperCase == <<"A","B","C","D","E","F","G","H","I","J","K","L","M",
               "N","O","P","Q","R","S","T","U","V","W","X","Y","Z">>

LowerCase == <<"a","b","c","d","e","f","g","h","i","j","k","l","m",
               "n","o","p","q","r","s","t","u","v","w","x","y","z">>

\* str.lower on one character
Lower(c) ==
  IF \E i \in 1..Len(UpperCase) : UpperCase[i] = c
  THEN LowerCase[CHOOSE i \in 1..Len(UpperCase) : UpperCase[i] = c]
  ELSE c

\* str.lower
lower(s) == [i \in 1..Len(s) |-> Lower(s[i])]

\* s[a:b] with 0-based offsets a <= b
Slice(s, a, b) == SubSeq(s, a + 1, b)

\* the literal lit stands in s at 0-based offset pos
MatchAt(s, pos, lit) ==
  /\ pos + Len(lit) <= Len(s)
  /\ Slice(s, pos, pos + Len(lit)) = lit

\* the same under re.IGNORECASE
MatchAtCI(s, pos, lit) ==
  /\ pos + Len(lit) <= Len(s)
  /\ lower(Slice(s, pos, pos + Len(lit))) = lower(lit)

\* str.startswith
startswith(s, prefix) == MatchAt(s, 0, prefix)

\* sub in s
Contains(s, sub) == \E pos \in 0..Len(s) : MatchAt(s, pos, sub)

\* str.strip(): leading and trailing whitespace removed
strip(s) ==
  LET keep == {i \in 1..Len(s) : ~IsSpace(s[i])}
  IN IF keep = {} THEN <<>> ELSE SubSeq(s, Min(keep), Max(keep))

\* str.lstrip(chars) for one character
lstrip(s, c) ==
  LET keep == {i \in 1..Len(s) : s[i] # c}
  IN IF keep = {} THEN <<>> ELSE SubSeq(s, Min(keep), Len(s))

\* str.rstrip()
rstrip(s) ==
  LET keep == {i \in 1..Len(s) : ~IsSpace(s[i])}
  IN IF keep = {} THEN <<>> ELSE SubSeq(s, 1, Max(keep))

RECURSIVE split(_, _)
\* str.split(sep) for a one-character separator
split(s, sep) ==
  LET hits == {i \in 1..Len(s) : s[i] = sep}
  IN IF hits = {} THEN <<s>>
     ELSE <<SubSeq(s, 1, Min(hits) - 1)>> \o split(SubSeq(s, Min(hits) + 1, Len(s)), sep)

RECURSIVE join(_, _)
\* sep.join(parts)
join(parts, sep) ==
  IF Len(parts) = 0 THEN <<>>
  ELSE IF Len(parts) = 1 THEN parts[1]
  ELSE parts[1] \o sep \o join(Tail(parts), sep)

RECURSIVE Concat(_)
\* the concatenation of a sequence of strs
Concat(parts) == IF parts = <<>> THEN <<>> ELSE Head(parts) \o Concat(Tail(parts))

NL == <<"\n">>

\* str.endswith
endswith(s, suffix) == Len(suffix) <= Len(s) /\ SubSeq(s, Len(s) - Len(suffix) + 1, Len(s)) = suffix

\* the line boundaries of str.splitlines(); "\f" stands for the boundaries other than
\* "\n" and "\r" (\v, \f, \x1c, \x1d, \x1e, \x85, \u2028, \u2029)
LineBoundaries == {"\n", "\r", "\f"}

RECURSIVE splitlines(_)
\* str.splitlines(): no line for the end after a final boundary, "\r\n" is one boundary
splitlines(s) ==
  LET hits == {i \in 1..Len(s) : s[i] \in LineBoundaries}
      cut == Min(hits)
      next == IF s[cut] = "\r" /\ cut < Len(s) /\ s[cut + 1] = "\n" THEN cut + 2 ELSE cut + 1
  IN IF s = <<>> THEN <<>>
     ELSE IF hits = {} THEN <<s>>
     ELSE <<SubSeq(s, 1, cut - 1)>> \o splitlines(SubSeq(s, next, Len(s)))

(***************************************************************************)
(* Names and paths                                                         *)
(***************************************************************************)
sebastian == <<"s","e","b","a","s","t","i","a","n">>

petra == <<"p","e","t","r","a">>

PERSONS == {sebastian, petra}

\* Path.home(), one directory below the filesystem root
HOME == <<<<"h","o","m","e">>>>

notes == <<"n","o","t","e","s">>

VAULT_ROOT == Append(HOME, notes)

GIT_DIR == Append(HOME, notes)

dotgit == <<".","g","i","t">>

etc == <<"e","t","c">>

a_md == <<"a",".","m","d">>

dot_hidden == <<".","h","i","d">>

ln == <<"l","n">>

DOT == <<".">>

DOTDOT == <<".", ".">>

SLASH == <<"/">>

NoErr == "ok"

None == <<"None">>

\* a raised exception or an HTTP error response: no value, the filesystem as given
Raise(f, e) == [fs |-> f, err |-> e, ret |-> None]

\* a normal return
Return(f, v) == [fs |-> f, err |-> NoErr, ret |-> v]

\* the outcome r of a handler with the sync calls and git commands it has run
Ran(r, commands) == [fs |-> r.fs, err |-> r.err, ret |-> r.ret, ran |-> commands]

(***************************************************************************)
(* Filesystem: absolute path -> entry                                      *)
(***************************************************************************)
Dir == [kind |-> "dir", data |-> <<>>, target |-> <<>>]

File(data) == [kind |-> "file", data |-> data, target |-> <<>>]

Link(target) == [kind |-> "link", data |-> <<>>, target |-> target]

\* Path.parent
Parent(p) == IF p = <<>> THEN <<>> ELSE SubSeq(p, 1, Len(p) - 1)

\* Path.parents
Parents(p) == {SubSeq(p, 1, k) : k \in 0..(Len(p) - 1)}

\* Path.exists() on a resolved path
exists(f, p) == p \in DOMAIN f

\* Path.is_dir() on a resolved path
is_dir(f, p) == p \in DOMAIN f /\ f[p].kind = "dir"

\* f with path p bound to entry e
Put(f, p, e) == [q \in DOMAIN f \cup {p} |-> IF q = p THEN e ELSE f[q]]

\* f without path p
Remove(f, p) == [q \in DOMAIN f \ {p} |-> f[q]]

\* the segments pathlib keeps of a path string: empty and "." segments are dropped
PathParts(s) == SelectSeq(split(s, "/"), LAMBDA seg : seg # <<>> /\ seg # DOT)

\* Path.is_absolute() on POSIX
is_absolute(s) == Len(s) > 0 /\ s[1] = "/"

RECURSIVE RealPath(_, _, _)
\* os.path.realpath, non-strict: ".." steps to the parent, a symlink is replaced by
\* its resolved target, a missing component is kept as written
RealPath(f, cur, segs) ==
  IF segs = <<>> THEN cur
  ELSE LET seg == Head(segs)
           rest == Tail(segs)
           new == Append(cur, seg)
       IN IF seg = <<>> \/ seg = DOT THEN RealPath(f, cur, rest)
          ELSE IF seg = DOTDOT THEN RealPath(f, Parent(cur), rest)
          ELSE IF new \in DOMAIN f /\ f[new].kind = "link"
               THEN RealPath(f, RealPath(f, <<>>, f[new].target), rest)
               ELSE RealPath(f, new, rest)

\* Path.resolve()
resolve(f, p) == RealPath(f, <<>>, p)

\* str(path.relative_to(VAULT_ROOT)) for a path at or under VAULT_ROOT
relative_to_root(p) ==
  IF Len(p) = Len(VAULT_ROOT) THEN DOT
  ELSE join(SubSeq(p, Len(VAULT_ROOT) + 1, Len(p)), SLASH)

\* resolve_path with the confinement test made on the joined path before .resolve()
resolve_path_unresolved(f, relative_path) ==
  IF relative_path = <<>> THEN Raise(f, "ValueError: Path is required")
  ELSE IF is_absolute(relative_path) THEN Raise(f, "ValueError: Path must be vault-relative")
  ELSE LET full_path == VAULT_ROOT \o PathParts(relative_path)
       IN IF VAULT_ROOT \notin Parents(full_path) /\ full_path # VAULT_ROOT
          THEN Raise(f, "ValueError: Path escapes vault root")
          ELSE Return(f, resolve(f, full_path))

\* vault_store.resolve_path
resolve_path(f, relative_path) ==
  IF relative_path = <<>> THEN Raise(f, "ValueError: Path is required")
  ELSE IF is_absolute(relative_path) THEN Raise(f, "ValueError: Path must be vault-relative")
  ELSE LET full_path == resolve(f, VAULT_ROOT \o PathParts(relative_path))
       IN IF resolve(f, VAULT_ROOT) \notin Parents(full_path) /\ full_path # resolve(f, VAULT_ROOT)
          THEN Raise(f, "ValueError: Path escapes vault root")
          ELSE Return(f, full_path)

PathErrors == {"ValueError: Path is required", "ValueError: Path must be vault-relative",
               "ValueError: Path escapes vault root"}

\* main.person_root_path
person_root_path(person) == Append(VAULT_ROOT, person)

\* main.person_relative_path
person_relative_path(person, relative_path) ==
  LET normalized == lstrip(strip(relative_path), "/")
  IN IF normalized \in {<<>>, DOT} THEN person
     ELSE IF startswith(normalized, person \o SLASH) \/ normalized = person THEN normalized
     ELSE person \o SLASH \o normalized

\* main.strip_person_path
strip_person_path(person, relative_path) ==
  IF relative_path = person THEN DOT
  ELSE IF startswith(relative_path, person \o SLASH)
       THEN SubSeq(relative_path, Len(person) + 2, Len(relative_path))
       ELSE relative_path

(***************************************************************************)
(* pathlib file primitives                                                 *)
(***************************************************************************)
\* os.linesep on POSIX
LINESEP == <<"\n">>

\* text-mode write with newline=None: every "\n" becomes os.linesep
WriteNewlines(s) == [i \in 1..Len(s) |-> IF s[i] = "\n" THEN LINESEP[1] ELSE s[i]]

\* text-mode read with newline=None (universal newlines): "\r\n" and "\r" become "\n"
ReadNewlines(s) ==
  LET kept == SelectSeq([i \in 1..Len(s) |-> i],
                        LAMBDA i : ~(s[i] = "\n" /\ i > 1 /\ s[i - 1] = "\r"))
  IN [k \in 1..Len(kept) |-> IF s[kept[k]] = "\r" THEN "\n" ELSE s[kept[k]]]

\* Path.read_text()
read_text(f, p) ==
  IF ~exists(f, p) THEN Raise(f, "FileNotFoundError")
  ELSE IF is_dir(f, p) THEN Raise(f, "IsADirectoryError")
  ELSE Return(f, ReadNewlines(f[p].data))

\* Path.write_text(content): the file is truncated and written
write_text(f, p, content) ==
  IF is_dir(f, p) THEN Raise(f, "IsADirectoryError")
  ELSE IF ~is_dir(f, Parent(p)) THEN Raise(f, "FileNotFoundError")
  ELSE Return(Put(f, p, File(WriteNewlines(content))), None)

\* open(p, "a").write(content)
append_text(f, p, content) ==
  IF is_dir(f, p) THEN Raise(f, "IsADirectoryError")
  ELSE IF ~is_dir(f, Parent(p)) THEN Raise(f, "FileNotFoundError")
  ELSE Return(Put(f, p, File((IF exists(f, p) THEN f[p].data ELSE <<>>) \o WriteNewlines(content))),
              None)

\* Path.mkdir(parents=True, exist_ok=True)
mkdir_parents(f, p) ==
  IF exists(f, p) THEN (IF is_dir(f, p) THEN Return(f, None) ELSE Raise(f, "FileExistsError"))
  ELSE IF \E q \in Parents(p) : exists(f, q) /\ ~is_dir(f, q) THEN Raise(f, "NotADirectoryError")
  ELSE Return([q \in DOMAIN f \cup Parents(p) \cup {p} |-> IF q \in DOMAIN f THEN f[q] ELSE Dir],
              None)

\* Path.unlink()
unlink(f, p) ==
  IF ~exists(f, p) THEN Raise(f, "FileNotFoundError")
  ELSE IF is_dir(f, p) THEN Raise(f, "IsADirectoryError")
  ELSE Return(Remove(f, p), None)

\* the names Path.iterdir() yields
iterdir(f, p) == {q[Len(q)] : q \in {r \in DOMAIN f : Len(r) = Len(p) + 1 /\ Parent(r) = p}}

(***************************************************************************)
(* Entry store (vault_store)                                               *)
(***************************************************************************)
\* vault_store.read_entry
read_entry(f, relative_path) ==
  LET filepath == resolve_path(f, relative_path)
  IN IF filepath.err # NoErr THEN filepath
     ELSE read_text(f, filepath.ret)

\* write_entry with the parent directories made before the path is validated
write_entry_unchecked(f, relative_path, content) ==
  LET filepath == resolve_path(f, relative_path)
      raw == resolve(f, VAULT_ROOT \o PathParts(relative_path))
      made == mkdir_parents(f, Parent(raw))
  IN IF made.err # NoErr THEN made
     ELSE IF filepath.err # NoErr THEN Raise(made.fs, filepath.err)
     ELSE write_text(made.fs, filepath.ret, content)

\* vault_store.write_entry
write_entry(f, relative_path, content) ==
  LET filepath == resolve_path(f, relative_path)
  IN IF filepath.err # NoErr THEN filepath
     ELSE LET made == mkdir_parents(f, Parent(filepath.ret))
          IN IF made.err # NoErr THEN made
             ELSE write_text(made.fs, filepath.ret, content)

\* the file is opened with mode "w" in place of "a"
append_entry_truncating(f, relative_path, content) == write_entry(f, relative_path, content)

\* vault_store.append_entry
append_entry(f, relative_path, content) ==
  LET filepath == resolve_path(f, relative_path)
  IN IF filepath.err # NoErr THEN filepath
     ELSE LET made == mkdir_parents(f, Parent(filepath.ret))
          IN IF made.err # NoErr THEN made
             ELSE append_text(made.fs, filepath.ret, content)

\* delete_entry without the early return for a missing path
delete_entry_no_exists_check(f, relative_path) ==
  LET filepath == resolve_path(f, relative_path)
  IN IF filepath.err # NoErr THEN filepath
     ELSE unlink(f, filepath.ret)

\* vault_store.delete_entry
delete_entry(f, relative_path) ==
  LET filepath == resolve_path(f, relative_path)
  IN IF filepath.err # NoErr THEN filepath
     ELSE IF ~exists(f, filepath.ret) THEN Return(f, None)
     ELSE IF is_dir(f, filepath.ret) THEN Raise(f, "IsADirectoryError: Path is a directory")
     ELSE unlink(f, filepath.ret)

\* the characters of the model in code-point order
CodePoints == <<"\t", "\n", "\f", "\r", " ", "#", "-", ".", "/",
                "0", "1", "2", "3", "4", "5", "6", "7", "8", "9", "<", ">", "X", "[", "]",
                "a","b","c","d","e","f","g","h","i","j","k","l","m",
                "n","o","p","q","r","s","t","u","v","w","x","y","z">>

ord(c) == CHOOSE i \in 1..Len(CodePoints) : CodePoints[i] = c

RECURSIVE StrLess(_, _)
\* a < b on strs
StrLess(a, b) ==
  IF b = <<>> THEN FALSE
  ELSE IF a = <<>> THEN TRUE
  ELSE IF Head(a) = Head(b) THEN StrLess(Tail(a), Tail(b))
  ELSE ord(Head(a)) < ord(Head(b))

\* the sort key of list_dir: files before directories, then the lowercased name
KeyLess(x, y) ==
  \/ ~x.is_dir /\ y.is_dir
  \/ x.is_dir = y.is_dir /\ StrLess(lower(x.name), lower(y.name))

RECURSIVE SortEntries(_)
\* list.sort(key=...) of a set of entries with pairwise different keys
SortEntries(S) ==
  IF S = {} THEN <<>>
  ELSE LET first == CHOOSE x \in S : \A y \in S \ {x} : ~KeyLess(y, x)
       IN <<first>> \o SortEntries(S \ {first})

\* vault_store.list_dir
list_dir(f, relative_path) ==
  LET directory == resolve_path(f, relative_path)
  IN IF directory.err # NoErr THEN directory
     ELSE IF ~exists(f, directory.ret) THEN Raise(f, "FileNotFoundError: Directory does not exist")
     ELSE IF ~is_dir(f, directory.ret) THEN Raise(f, "NotADirectoryError: Path is not a directory")
     ELSE Return(f, SortEntries({[name |-> name,
                                  path |-> relative_to_root(Append(directory.ret, name)),
                                  is_dir |-> is_dir(f, resolve(f, Append(directory.ret, name)))]
                                 : name \in {n \in iterdir(f, directory.ret) : ~startswith(n, DOT)}}))

(***************************************************************************)
(* Sync coordinator (git_sync): git_pull, git_commit_and_push              *)
(***************************************************************************)
GitPath == Append(GIT_DIR, dotgit)

NoRepository(f) == ~exists(f, GIT_DIR) \/ ~exists(f, GitPath)

\* the marker paths git_pull looks for, and the lock of the index
rebase_merge == Append(GitPath, <<"r","e","b","a","s","e","-","m","e","r","g","e">>)

rebase_apply == Append(GitPath, <<"r","e","b","a","s","e","-","a","p","p","l","y">>)

MERGE_HEAD == Append(GitPath, <<"M","E","R","G","E","_","H","E","A","D">>)

index_lock == Append(GitPath, <<"i","n","d","e","x",".","l","o","c","k">>)

\* The entry of .git holds the repository and what git talks to: head and commits are the
\* tree and the history of the checked-out branch, origin the remote-tracking branch, base
\* the tree of the last commit the branch shares with the remote; remote is the branch in
\* the remote repository, reachable says whether it answers, and spawn says for the next
\* subprocess.run calls whether the process starts (none left: it starts)
Repo(f) == f[GitPath].data

SetRepo(f, repo) == [f EXCEPT ![GitPath].data = repo]

\* a branch: the tree of its last commit and the commits of its history
Branch(tree, commits) == [tree |-> tree, commits |-> commits]

\* the files of the working tree
Tracked(f) ==
  [p \in {q \in DOMAIN f : /\ GIT_DIR \in Parents(q)
                           /\ q # GitPath /\ GitPath \notin Parents(q)
                           /\ f[q].kind # "dir"} |-> f[p]]

\* the paths on which two trees differ
Differences(tree, other) ==
  {p \in DOMAIN tree \cup DOMAIN other :
     ~(p \in DOMAIN tree /\ p \in DOMAIN other /\ tree[p] = other[p])}

\* the working tree with the paths taken from tree: written, or removed where tree has none
Checkout(f, paths, tree) ==
  [q \in (DOMAIN f \ {p \in paths : p \notin DOMAIN tree})
         \cup UNION {Parents(p) \cup {p} : p \in paths \cap DOMAIN tree} |->
     IF q \in paths \cap DOMAIN tree THEN tree[q] ELSE IF q \in DOMAIN f THEN f[q] ELSE Dir]

\* the number of a new commit
NewCommit(repo) == 1 + Max(repo.commits \cup repo.origin.commits \cup repo.remote.commits \cup {0})

\* what subprocess.run gives: the filesystem, whether it raised, the return code, stdout,
\* and the calls made so far
Ended(f, returncode, stdout, ran) ==
  [fs |-> f, raised |-> FALSE, returncode |-> returncode, stdout |-> stdout, ran |-> ran]

\* git status --porcelain: the paths that differ from HEAD
git_status(f, ran) == Ended(f, 0, Differences(Tracked(f), Repo(f).head), ran)

\* git add .
git_add(f, ran) == IF exists(f, index_lock) THEN Ended(f, 128, {}, ran) ELSE Ended(f, 0, {}, ran)

\* git commit -m message: it concludes a merge that was left
git_commit(f, ran) ==
  IF exists(f, index_lock) THEN Ended(f, 128, {}, ran)
  ELSE Ended(SetRepo([q \in DOMAIN f \ {MERGE_HEAD} |-> f[q]],
                     [Repo(f) EXCEPT !.head = Tracked(f),
                                        !.commits = @ \cup {NewCommit(Repo(f))}]),
             0, {}, ran)

\* git push: accepted when the remote answers and holds no commit the branch lacks
git_push(f, ran) ==
  IF Repo(f).reachable /\ Repo(f).remote.commits \subseteq Repo(f).commits
  THEN Ended(SetRepo(f, [Repo(f) EXCEPT !.remote = Branch(Repo(f).head, Repo(f).commits),
                                        !.origin = Branch(Repo(f).head, Repo(f).commits),
                                        !.base = Repo(f).head]),
             0, {}, ran)
  ELSE Ended(f, 1, {}, ran)

\* git rebase --abort
git_rebase_abort(f, ran) ==
  Ended([q \in DOMAIN f \ {rebase_merge, rebase_apply} |-> f[q]], 0, {}, ran)

\* git merge --abort
git_merge_abort(f, ran) == Ended([q \in DOMAIN f \ {MERGE_HEAD} |-> f[q]], 0, {}, ran)

\* the merge of git pull once the remote branch is fetched: remote is what is merged,
\* theirs the paths the remote changed since base. A file changed on both sides is taken
\* from the remote whole (-X theirs decides per hunk)
git_merge(f, repo, remote, theirs, ran) ==
  IF remote.commits \subseteq repo.commits THEN Ended(SetRepo(f, repo), 0, {}, ran)
  ELSE IF theirs \cap Differences(Tracked(f), repo.head) # {} \/ exists(f, index_lock)
  THEN Ended(SetRepo(f, repo), 1, {}, ran)
  ELSE Ended(SetRepo(Checkout(f, theirs, remote.tree),
                     [repo EXCEPT !.head = [p \in (DOMAIN repo.head \ theirs)
                                                  \cup (theirs \cap DOMAIN remote.tree) |->
                                              IF p \in theirs THEN remote.tree[p] ELSE repo.head[p]],
                                  !.commits = IF repo.commits \subseteq remote.commits
                                              THEN remote.commits
                                              ELSE repo.commits \cup remote.commits \cup {NewCommit(repo)},
                                  !.base = remote.tree]),
             0, {}, ran)

\* git pull --no-rebase -X theirs: fails where the remote does not answer or has no branch
git_pull_theirs(f, ran) ==
  IF ~Repo(f).reachable \/ Repo(f).remote.commits = {} THEN Ended(f, 1, {}, ran)
  ELSE git_merge(f, [Repo(f) EXCEPT !.origin = Repo(f).remote], Repo(f).remote,
                 Differences(Repo(f).remote.tree, Repo(f).base), ran)

\* git fetch origin
git_fetch(f, ran) ==
  IF Repo(f).reachable THEN Ended(SetRepo(f, [Repo(f) EXCEPT !.origin = Repo(f).remote]), 0, {}, ran)
  ELSE Ended(f, 128, {}, ran)

\* git rev-parse --abbrev-ref HEAD: fails while the branch has no commit
git_rev_parse(f, ran) ==
  IF Repo(f).commits = {} THEN Ended(f, 128, {}, ran) ELSE Ended(f, 0, {}, ran)

\* git reset --hard origin/<branch>: fails where there is no remote-tracking branch
git_reset_hard(f, ran) ==
  IF Repo(f).origin.commits = {} \/ exists(f, index_lock) THEN Ended(f, 128, {}, ran)
  ELSE Ended(SetRepo(Checkout(f, DOMAIN Repo(f).head \cup DOMAIN Repo(f).origin.tree,
                              Repo(f).origin.tree),
                     [Repo(f) EXCEPT !.head = Repo(f).origin.tree,
                                     !.commits = Repo(f).origin.commits,
                                     !.base = Repo(f).origin.tree]),
             0, {}, ran)

\* the git command of the arguments args
git(f, args, ran) ==
  CASE args = "git status --porcelain" -> git_status(f, ran)
    [] args = "git add ." -> git_add(f, ran)
    [] args = "git commit" -> git_commit(f, ran)
    [] args = "git push" -> git_push(f, ran)
    [] args = "git rebase --abort" -> git_rebase_abort(f, ran)
    [] args = "git merge --abort" -> git_merge_abort(f, ran)
    [] args = "git pull --no-rebase -X theirs" -> git_pull_theirs(f, ran)
    [] args = "git fetch origin" -> git_fetch(f, ran)
    [] args = "git rev-parse --abbrev-ref HEAD" -> git_rev_parse(f, ran)
    [] args = "git reset --hard" -> git_reset_hard(f, ran)

\* subprocess.run(args, cwd=GIT_DIR) after the calls before: it raises OSError where the
\* process does not start
run(before, args) ==
  IF Repo(before.fs).spawn = <<>> THEN git(before.fs, args, Append(before.ran, args))
  ELSE IF Head(Repo(before.fs).spawn)
  THEN git(SetRepo(before.fs, [Repo(before.fs) EXCEPT !.spawn = Tail(@)]), args,
           Append(before.ran, args))
  ELSE [fs |-> SetRepo(before.fs, [Repo(before.fs) EXCEPT !.spawn = Tail(@)]), raised |-> TRUE,
        returncode |-> 1, stdout |-> {}, ran |-> Append(before.ran, args)]

\* what a sync function returns: (success, message), with the calls made
Synced(done, success, message) ==
  Ran(Return(done.fs, [success |-> success, message |-> message]), done.ran)

\* git_pull: except Exception
pull_raised(done) == Synced(done, FALSE, "Error")

\* git_pull after git reset --hard
pull_reset(reset) ==
  IF reset.raised THEN pull_raised(reset)
  ELSE Synced(reset, TRUE, "Recovered by resetting to remote")

\* git_pull after git rev-parse
pull_branch(branch_result) ==
  IF branch_result.raised THEN pull_raised(branch_result)
  ELSE IF branch_result.returncode = 0 THEN pull_reset(run(branch_result, "git reset --hard"))
  ELSE Synced(branch_result, FALSE, "Git pull failed")

\* git_pull after git fetch
pull_fetched(fetched) ==
  IF fetched.raised THEN pull_raised(fetched)
  ELSE pull_branch(run(fetched, "git rev-parse --abbrev-ref HEAD"))

\* the fetch and the reset follow the pull whatever its return code
pull_pulled_then_reset(result) ==
  IF result.raised THEN pull_raised(result)
  ELSE pull_fetched(run(result, "git fetch origin"))

\* git_pull after git pull
pull_pulled(result) ==
  IF result.raised THEN pull_raised(result)
  ELSE IF result.returncode = 0 THEN Synced(result, TRUE, "Pulled latest changes")
  ELSE pull_fetched(run(result, "git fetch origin"))

\* git_pull after the merge marker is looked at
pull_merge_aborted(aborted) ==
  IF aborted.raised THEN pull_raised(aborted)
  ELSE pull_pulled(run(aborted, "git pull --no-rebase -X theirs"))

\* git_pull after the rebase markers are looked at
pull_rebase_aborted(aborted) ==
  IF aborted.raised THEN pull_raised(aborted)
  ELSE IF exists(aborted.fs, MERGE_HEAD) THEN pull_merge_aborted(run(aborted, "git merge --abort"))
  ELSE pull_merge_aborted(aborted)

\* git_pull in a repository
pull_repository(entered) ==
  IF exists(entered.fs, rebase_merge) \/ exists(entered.fs, rebase_apply)
  THEN pull_rebase_aborted(run(entered, "git rebase --abort"))
  ELSE pull_rebase_aborted(entered)

\* the repository test is left out: without a repository subprocess.run raises
git_pull_unguarded(f) ==
  IF NoRepository(f) THEN Ran(Return(f, [success |-> FALSE, message |-> "Error"]), <<"git_pull">>)
  ELSE pull_repository(Ended(f, 0, {}, <<"git_pull">>))

\* git_sync.git_pull
git_pull(f) ==
  CASE NoRepository(f) ->
         Ran(Return(f, [success |-> TRUE, message |-> "No git repository"]), <<"git_pull">>)
    [] ~NoRepository(f) -> pull_repository(Ended(f, 0, {}, <<"git_pull">>))

\* the exception is passed on to the caller as a failure
saved_locally_reported(done) == Synced(done, FALSE, "Changes saved locally: error")

\* git_commit_and_push: except CalledProcessError, except Exception
saved_locally(done) == Synced(done, TRUE, "Changes saved locally: error")

push_failed(done) ==
  Synced(done, TRUE, "Changes committed locally (push failed, will retry on next sync)")

\* git_commit_and_push after the second git push
push_retried(retry_push) ==
  IF retry_push.raised THEN saved_locally(retry_push)
  ELSE IF retry_push.returncode = 0
  THEN Synced(retry_push, TRUE, "Changes committed and pushed (after sync)")
  ELSE push_failed(retry_push)

\* git_commit_and_push after git_pull
push_pulled(pulled, ran) ==
  IF pulled.ret.success
  THEN push_retried(run([fs |-> pulled.fs, ran |-> ran \o pulled.ran], "git push"))
  ELSE push_failed([fs |-> pulled.fs, ran |-> ran \o pulled.ran])

\* git_commit_and_push after the first git push
push_pushed(push_result) ==
  IF push_result.raised THEN saved_locally(push_result)
  ELSE IF push_result.returncode = 0 THEN Synced(push_result, TRUE, "Changes committed and pushed")
  ELSE push_pulled(git_pull(push_result.fs), push_result.ran)

\* git_commit_and_push after git commit
push_committed(committed) ==
  IF committed.raised \/ committed.returncode # 0 THEN saved_locally(committed)
  ELSE push_pushed(run(committed, "git push"))

\* git_commit_and_push after git add
push_added(added) ==
  IF added.raised \/ added.returncode # 0 THEN saved_locally(added)
  ELSE push_committed(run(added, "git commit"))

\* the tree is committed whether or not git status names a change
push_status_unread(result) == push_added(run(result, "git add ."))

\* git_commit_and_push after git status
push_status(result) ==
  IF result.raised \/ result.returncode # 0 THEN saved_locally(result)
  ELSE IF result.stdout = {} THEN Synced(result, TRUE, "No changes to commit")
  ELSE push_added(run(result, "git add ."))

\* git_sync.git_commit_and_push
git_commit_and_push(f, message) ==
  CASE NoRepository(f) ->
         Ran(Return(f, [success |-> TRUE, message |-> "No git repository (notes saved locally)"]),
             <<"git_commit_and_push">>)
    [] ~NoRepository(f) ->
         push_status(run(Ended(f, 0, {}, <<"git_commit_and_push">>), "git status --porcelain"))

(***************************************************************************)
(* File endpoints (main)                                                   *)
(***************************************************************************)
Json(success, message) == [success |-> success, message |-> message]

\* GET /api/files/list
list_files(f, person, path) ==
  LET pulled == git_pull(f)
      entries == list_dir(pulled.fs, person_relative_path(person, path))
  IN IF entries.err # NoErr THEN entries
     ELSE Return(entries.fs,
                 [i \in 1..Len(entries.ret) |->
                    [entries.ret[i] EXCEPT !.path = strip_person_path(person, entries.ret[i].path)]])

\* GET /api/files/read
read_file(f, person, path) ==
  LET pulled == git_pull(f)
      filepath == resolve_path(pulled.fs, person_relative_path(person, path))
  IN IF filepath.err # NoErr THEN filepath
     ELSE IF ~exists(pulled.fs, filepath.ret) THEN Raise(pulled.fs, "HTTP 404: File not found")
     ELSE IF is_dir(pulled.fs, filepath.ret) THEN Raise(pulled.fs, "HTTP 400: Path is a directory")
     ELSE LET content == read_entry(pulled.fs, relative_to_root(filepath.ret))
          IN IF content.err # NoErr THEN content
             ELSE Return(content.fs,
                         [path |-> strip_person_path(person, relative_to_root(filepath.ret)),
                          content |-> content.ret])

\* POST /api/files/create
create_file(f, person, path) ==
  IF strip(path) = <<>> THEN Raise(f, "HTTP 400: Path required")
  ELSE LET normalized == person_relative_path(person, strip(path))
           filepath == resolve_path(f, normalized)
       IN IF filepath.err # NoErr THEN filepath
          ELSE IF exists(f, filepath.ret) THEN Return(f, Json(TRUE, "File already exists"))
          ELSE LET written == write_entry(f, normalized, <<>>)
                   pushed == git_commit_and_push(written.fs, "Create file")
               IN IF written.err # NoErr THEN written
                  ELSE Return(pushed.fs,
                              Json(pushed.ret.success,
                                   IF pushed.ret.success THEN "File created" ELSE pushed.ret.message))

\* POST /api/files/save-json
save_file_json(f, person, path, content) ==
  LET written == write_entry(f, person_relative_path(person, path), content)
      pushed == git_commit_and_push(written.fs, "Update file")
  IN IF written.err # NoErr THEN written
     ELSE Return(pushed.fs,
                 Json(pushed.ret.success,
                      IF pushed.ret.success THEN "File saved" ELSE pushed.ret.message))

\* POST /api/files/delete-json
delete_file_json(f, person, path) ==
  LET deleted == delete_entry(f, person_relative_path(person, path))
      pushed == git_commit_and_push(deleted.fs, "Delete file")
  IN IF deleted.err = "IsADirectoryError: Path is a directory"
     THEN Return(f, Json(FALSE, "Cannot delete a directory"))
     ELSE IF deleted.err # NoErr THEN deleted
     ELSE Return(pushed.fs,
                 Json(pushed.ret.success,
                      IF pushed.ret.success THEN "File deleted" ELSE pushed.ret.message))

(***************************************************************************)
(* State: the filesystem and the call in flight                            *)
(***************************************************************************)
\* the memory of the server process before a request has used it
NoMem == <<>>

\* no call in flight
Idle == [op |-> "idle", person |-> <<>>, path |-> <<>>, arg |-> <<>>, err |-> NoErr, ret |-> None]

\* the call just made, its arguments and its outcome
Call(op, person, path, arg, r) ==
  [op |-> op, person |-> person, path |-> path, arg |-> arg, err |-> r.err, ret |-> r.ret]

\* the directories and files every initial filesystem holds
BaseFs ==
  LET dirs == {<<>>, <<etc>>, HOME, VAULT_ROOT, person_root_path(sebastian), person_root_path(petra)}
      files == {<<etc, a_md>>, Append(person_root_path(sebastian), a_md),
                Append(person_root_path(sebastian), dot_hidden)}
  IN [p \in dirs \cup files |-> IF p \in dirs THEN Dir ELSE File(<<"s", "\n">>)]

\* the response is delivered and the next request may arrive
Respond ==
  /\ last.op # "idle"
  /\ last' = Idle
  /\ UNCHANGED <<fs, mem>>

(***************************************************************************)
(* SpecPath: resolve_path over request paths and symlinks                  *)
(***************************************************************************)
PathTokens == {SLASH, <<".",".","/">>, <<"p","e","t","r","a","/">>, <<"l","n","/">>, <<"e","t","c","/">>, a_md, DOT}

RECURSIVE TokenPaths(_, _)
\* the strs made of at most n tokens
TokenPaths(tokens, n) ==
  IF n = 0 THEN {<<>>}
  ELSE LET shorter == TokenPaths(tokens, n - 1)
       IN shorter \cup {s \o tok : s \in shorter, tok \in tokens}

\* the vault with a symlink VAULT_ROOT/ln: to a directory outside, to a person's directory
PathInitFs ==
  {BaseFs, Put(BaseFs, Append(VAULT_ROOT, ln), Link(<<etc>>)),
   Put(BaseFs, Append(VAULT_ROOT, ln), Link(person_root_path(sebastian)))}

PathInit ==
  /\ fs \in PathInitFs
  /\ last = Idle
  /\ mem = NoMem

ResolvePath ==
  /\ last.op = "idle"
  /\ \E relative_path \in TokenPaths(PathTokens, MaxPathTokens) :
       last' = Call("resolve_path", <<>>, relative_path, <<>>, resolve_path(fs, relative_path))
  /\ UNCHANGED <<fs, mem>>

PathNext == ResolvePath \/ Respond

SpecPath == PathInit /\ [][PathNext]_vars

(***************************************************************************)
(* SpecStore: the entry store and the file endpoints on one vault          *)
(***************************************************************************)
\* request paths: empty, absolute with a trailing blank, escaping, a file, a person's
\* file, a sibling of the vault root, a directory, the root
PathEmpty == <<>>

PathAbsolute == <<"/","a",".","m","d"," ">>

PathEscape == <<".",".","/",".",".","/","e","t","c","/","a",".","m","d">>

PathFile == a_md

PathPersonFile == <<"s","e","b","a","s","t","i","a","n","/","a",".","m","d">>

PathUp == <<".",".","/","s","e","b","a","s","t","i","a","n","/","a",".","m","d">>

PathPersonDir == sebastian

StorePaths == {PathEmpty, PathAbsolute, PathEscape, PathFile, PathPersonFile, PathUp,
               PathPersonDir, DOT}

TextPlain == <<"a">>

TextLine == <<"a","\n">>

TextCrLf == <<"\r","\n">>

\* file contents: no trailing newline, a trailing newline, a CRLF line end
Texts == {TextPlain, TextLine, TextCrLf}

\* the files of a filesystem
Files(f) == {p \in DOMAIN f : f[p].kind = "file"}

\* the bounds on the filesystems the store operations build
WithinBounds(f) ==
  /\ Cardinality(Files(f)) <= Cardinality(Files(BaseFs)) + MaxNewFiles
  /\ \A p \in Files(f) : Len(f[p].data) <= MaxFileLen

StoreInit ==
  /\ fs = BaseFs
  /\ last = Idle
  /\ mem = NoMem

\* a call with outcome r is made
Made(op, person, path, arg, r) ==
  /\ WithinBounds(r.fs)
  /\ fs' = r.fs
  /\ last' = Call(op, person, path, arg, r)
  /\ UNCHANGED mem

ReadEntry ==
  /\ last.op = "idle"
  /\ \E path \in StorePaths : Made("read_entry", <<>>, path, <<>>, read_entry(fs, path))

WriteEntry ==
  /\ last.op = "idle"
  /\ \E path \in StorePaths, content \in Texts :
       Made("write_entry", <<>>, path, content, write_entry(fs, path, content))

AppendEntry ==
  /\ last.op = "idle"
  /\ \E path \in StorePaths, content \in Texts :
       Made("append_entry", <<>>, path, content, append_entry(fs, path, content))

DeleteEntry ==
  /\ last.op = "idle"
  /\ \E path \in StorePaths : Made("delete_entry", <<>>, path, <<>>, delete_entry(fs, path))

ListDir ==
  /\ last.op = "idle"
  /\ \E path \in StorePaths : Made("list_dir", <<>>, path, <<>>, list_dir(fs, path))

ListFiles ==
  /\ last.op = "idle"
  /\ \E person \in PERSONS, path \in StorePaths :
       Made("list_files", person, path, <<>>, list_files(fs, person, path))

ReadFile ==
  /\ last.op = "idle"
  /\ \E person \in PERSONS, path \in StorePaths :
       Made("read_file", person, path, <<>>, read_file(fs, person, path))

CreateFile ==
  /\ last.op = "idle"
  /\ \E person \in PERSONS, path \in StorePaths :
       Made("create_file", person, path, <<>>, create_file(fs, person, path))

SaveFileJson ==
  /\ last.op = "idle"
  /\ \E person \in PERSONS, path \in StorePaths, content \in Texts :
       Made("save_file_json", person, path, content, save_file_json(fs, person, path, content))

DeleteFileJson ==
  /\ last.op = "idle"
  /\ \E person \in PERSONS, path \in StorePaths :
       Made("delete_file_json", person, path, <<>>, delete_file_json(fs, person, path))

StoreOps == {"read_entry", "write_entry", "append_entry", "delete_entry", "list_dir"}

FileEndpoints == {"list_files", "read_file", "create_file", "save_file_json", "delete_file_json"}

StoreNext ==
  \/ ReadEntry
  \/ WriteEntry
  \/ AppendEntry
  \/ DeleteEntry
  \/ ListDir
  \/ ListFiles
  \/ ReadFile
  \/ CreateFile
  \/ SaveFileJson
  \/ DeleteFileJson
  \/ Respond

SpecStore == StoreInit /\ [][StoreNext]_vars

(***************************************************************************)
(* Claims on the path resolver and the entry store                         *)
(***************************************************************************)
\* p is root or lies under it
AtOrUnder(p, root) == Len(p) >= Len(root) /\ SubSeq(p, 1, Len(root)) = root

\* where a vault-relative path string points once symlinks and ".." are resolved
Location(f, path) == resolve(f, VAULT_ROOT \o PathParts(path))

\* the paths the resolver has to refuse
MustReject(f, path) ==
  \/ path = <<>>
  \/ is_absolute(path)
  \/ ~AtOrUnder(Location(f, path), VAULT_ROOT)

\* C1: resolve_path rejects an empty path, an absolute path and every path whose
\* resolved location is neither the vault root nor under it; a path it returns is
\* the vault root or lies under it.
C1_ResolvePathConfined ==
  last.op = "resolve_path" =>
    /\ last.path = <<>> => last.err = "ValueError: Path is required"
    /\ is_absolute(last.path) => last.err = "ValueError: Path must be vault-relative"
    /\ MustReject(fs, last.path) => last.err \in PathErrors
    /\ last.err = NoErr => AtOrUnder(last.ret, VAULT_ROOT) /\ last.ret = Location(fs, last.path)

\* resolve_path has refused ../../etc/a.md as an escape
C1_Witness ==
  /\ last.op = "resolve_path"
  /\ last.path = PathEscape
  /\ last.err = "ValueError: Path escapes vault root"

\* C2: an entry store operation given a path that resolve_path rejects fails with the
\* resolver's error and leaves the filesystem as it was: nothing is created, written
\* or deleted.
C2_RejectedPathLeavesStore ==
  [][(last'.op \in StoreOps /\ MustReject(fs, last'.path))
       => (last'.err \in PathErrors /\ fs' = fs)]_vars

\* write_entry was refused a path that points beside the vault root
C2_Witness ==
  /\ last.op = "write_entry"
  /\ last.path = PathUp
  /\ last.err = "ValueError: Path escapes vault root"

\* C3: the file or directory a file endpoint called by person p has worked on,
\* resolve_path(person_relative_path(p, path)), lies at or under VAULT_ROOT/p.
C3_PersonConfined ==
  (last.op \in FileEndpoints /\ last.err = NoErr) =>
    LET filepath == resolve_path(fs, person_relative_path(last.person, last.path))
    IN filepath.err = NoErr => AtOrUnder(filepath.ret, person_root_path(last.person))

\* C4: after write_entry(path, text) has succeeded, read_entry(path) returns text.
C4_WriteReadRoundTrip ==
  (last.op = "write_entry" /\ last.err = NoErr) =>
    /\ read_entry(fs, last.path).err = NoErr
    /\ read_entry(fs, last.path).ret = last.arg

\* the path string a delete call hands to delete_entry
DeletedPath(call) ==
  IF call.op = "delete_entry" THEN call.path
  ELSE person_relative_path(call.person, call.path)

\* C5: delete_entry on a valid path: a missing path is no error and changes nothing,
\* a directory fails with IsADirectory and changes nothing (the endpoint answers
\* "Cannot delete a directory"), a file is removed and every other entry stays.
C5_DeleteEntry ==
  [][(last'.op \in {"delete_entry", "delete_file_json"} /\ ~MustReject(fs, DeletedPath(last')))
       => LET target == Location(fs, DeletedPath(last'))
          IN /\ ~exists(fs, target) => (fs' = fs /\ last'.err = NoErr)
             /\ is_dir(fs, target) =>
                  /\ fs' = fs
                  /\ IF last'.op = "delete_entry"
                     THEN last'.err = "IsADirectoryError: Path is a directory"
                     ELSE last'.ret = Json(FALSE, "Cannot delete a directory")
             /\ (exists(fs, target) /\ ~is_dir(fs, target)) =>
                  /\ last'.err = NoErr
                  /\ DOMAIN fs' = DOMAIN fs \ {target}
                  /\ \A q \in DOMAIN fs' : fs'[q] = fs[q]]_vars

\* delete_entry has removed sebastian/a.md and left its neighbour
C5_Witness ==
  /\ last.op = "delete_entry"
  /\ last.path = PathPersonFile
  /\ last.err = NoErr
  /\ ~exists(fs, Append(person_root_path(sebastian), a_md))
  /\ exists(fs, Append(person_root_path(sebastian), dot_hidden))

(***************************************************************************)
(* Markdown section engine (main)                                          *)
(***************************************************************************)
todos == <<"t","o","d","o","s">>

custom_notes == <<"c","u","s","t","o","m"," ","n","o","t","e","s">>

NoMatch == -1

\* the offset after the longest run of \s that starts at offset pos
SkipSpaces(s, pos) ==
  CHOOSE j \in pos..Len(s) :
    /\ \A k \in (pos + 1)..j : IsSpace(s[k])
    /\ j = Len(s) \/ ~IsSpace(s[j + 1])

\* ^ under re.MULTILINE: the start of the string or just after a newline
AtLineStart(s, pos) == pos = 0 \/ s[pos] = "\n"

\* $ under re.MULTILINE: the end of the string or just before a newline
AtLineEnd(s, pos) == pos = Len(s) \/ s[pos + 1] = "\n"

\* the end of \s*$ tried at offset pos: the greedy run of whitespace, given back
\* character by character until $ holds
TrailingSpaceEnd(s, pos) ==
  LET ends == {j \in pos..SkipSpaces(s, pos) : AtLineEnd(s, j)}
  IN IF ends = {} THEN NoMatch ELSE Max(ends)

\* the end of a match of ^##\s+todos\s*$ that starts at offset pos
TodosHeaderEnd(s, pos) ==
  IF AtLineStart(s, pos) /\ MatchAt(s, pos, <<"#", "#">>)
       /\ SkipSpaces(s, pos + 2) > pos + 2
       /\ MatchAtCI(s, SkipSpaces(s, pos + 2), todos)
  THEN TrailingSpaceEnd(s, SkipSpaces(s, pos + 2) + Len(todos))
  ELSE NoMatch

\* the end of a match of ^## <section_name>\s*$ that starts at offset pos, for a name
\* of letters and blanks
NamedHeaderEnd(s, pos, section_name) ==
  IF AtLineStart(s, pos) /\ MatchAtCI(s, pos, <<"#", "#", " ">> \o section_name)
  THEN TrailingSpaceEnd(s, pos + 3 + Len(section_name))
  ELSE NoMatch

\* section_pattern tried at offset pos
HeaderEnd(s, pos, section_name) ==
  IF lower(section_name) = todos THEN TodosHeaderEnd(s, pos)
  ELSE NamedHeaderEnd(s, pos, section_name)

\* re.search(section_pattern, content, re.MULTILINE | re.IGNORECASE): the offsets where a
\* match starts
HeaderStarts(s, section_name) == {pos \in 0..Len(s) : HeaderEnd(s, pos, section_name) # NoMatch}

\* re.search(r'^## ', remaining_content, re.MULTILINE): the offsets where a match starts
NextSectionStarts(s) == {pos \in 0..Len(s) : AtLineStart(s, pos) /\ MatchAt(s, pos, <<"#", "#", " ">>)}

\* extract_section on the content read
section_of(content, section_name) ==
  IF HeaderStarts(content, section_name) = {} THEN <<>>
  ELSE LET start_pos == HeaderEnd(content, Min(HeaderStarts(content, section_name)), section_name)
           remaining_content == Slice(content, start_pos, Len(content))
           section_content ==
             IF NextSectionStarts(remaining_content) # {}
             THEN Slice(remaining_content, 0, Min(NextSectionStarts(remaining_content)))
             ELSE remaining_content
       IN strip(section_content)

\* main.extract_section
extract_section(f, filepath, section_name) ==
  IF ~exists(f, filepath) THEN <<>>
  ELSE section_of(read_text(f, filepath).ret, section_name)

\* re.match(r'^\s*-\s*\[x\]', line, re.IGNORECASE)
IsCompletedTodo(line) ==
  /\ MatchAt(line, SkipSpaces(line, 0), <<"-">>)
  /\ MatchAtCI(line, SkipSpaces(line, SkipSpaces(line, 0) + 1), <<"[", "x", "]">>)

\* main.extract_incomplete_todos
extract_incomplete_todos(f, filepath) ==
  LET todos_content == extract_section(f, filepath, todos)
  IN IF todos_content = <<>> THEN <<>>
     ELSE strip(join(SelectSeq(split(todos_content, "\n"), LAMBDA line : ~IsCompletedTodo(line)),
                     NL))

pinned_marker == <<"<","p","i","n","n","e","d",">">>

entry_prefix == <<"#","#","#"," ">>

\* the state of the scan of extract_pinned_notes before any line
ScanStart == [pinned_entries |-> <<>>, current_entry |-> <<>>, is_pinned |-> FALSE]

\* one turn of the for loop of extract_pinned_notes
ScanLine(st, line) ==
  IF startswith(line, entry_prefix)
  THEN [pinned_entries |-> IF st.is_pinned /\ st.current_entry # <<>>
                           THEN Append(st.pinned_entries, join(st.current_entry, NL))
                           ELSE st.pinned_entries,
        current_entry |-> <<line>>,
        is_pinned |-> Contains(lower(line), pinned_marker)]
  ELSE IF st.current_entry # <<>>
       THEN [st EXCEPT !.current_entry = Append(st.current_entry, line)]
       ELSE st

RECURSIVE Scan(_, _)
\* the for loop of extract_pinned_notes over lines
Scan(st, lines) ==
  IF lines = <<>> THEN st ELSE Scan(ScanLine(st, Head(lines)), Tail(lines))

\* the last entry is not flushed after the loop
FlushLast_dropped(st) == st.pinned_entries

\* the entry still open after the loop is kept when it is pinned
FlushLast(st) ==
  IF st.is_pinned /\ st.current_entry # <<>>
  THEN Append(st.pinned_entries, join(st.current_entry, NL))
  ELSE st.pinned_entries

\* main.extract_pinned_notes
extract_pinned_notes(f, filepath) ==
  LET custom == extract_section(f, filepath, custom_notes)
  IN IF custom = <<>> THEN <<>>
     ELSE join(FlushLast(Scan(ScanStart, split(custom, "\n"))), <<"\n", "\n">>)

(***************************************************************************)
(* SpecText: the section engine over one daily note                        *)
(***************************************************************************)
daily == <<"d","a","i","l","y">>

note_md == <<"2","0","2","4","-","0","1","-","0","1",".","m","d">>

\* the note the engine reads, under the person's daily directory
NotePath == person_root_path(sebastian) \o <<daily, note_md>>

todos_header == <<"#","#"," ","t","o","d","o","s">>

custom_header == <<"#","#"," ","c","u","s","t","o","m"," ","n","o","t","e","s">>

SectionLines ==
  {todos_header, <<"#","#"," ","T","O","D","O","S"," ">>, <<"#", "#">>, todos, custom_header,
   <<>>, <<" "," ","x">>, <<"y">>}

open_todo == <<"-"," ","["," ","]"," ","a">>

done_todo == <<"-"," ","[","x","]"," ","b">>

nested_open_todo == <<" "," ","-"," ","["," ","]"," ","c">>

nested_done_todo == <<"\t","-"," ","[","X","]"," ","d">>

TodoLines == {open_todo, done_todo, nested_open_todo, nested_done_todo}

pinned_entry == <<"#","#","#"," ","a"," ","<","p","i","n","n","e","d",">">>

plain_entry == <<"#","#","#"," ","b">>

PINNED_entry == <<"#","#","#"," ","C"," ","<","P","I","N","N","E","D",">">>

PinnedLines == {pinned_entry, plain_entry, PINNED_entry, <<"x">>, <<>>}

\* the sequences of at most n lines of a vocabulary
LineSeqs(vocabulary, n) == UNION {[1..k -> vocabulary] : k \in 0..n}

\* the lines joined by newlines, with or without the final newline
DocOf(lines, final_newline) == join(lines, NL) \o (IF final_newline THEN NL ELSE <<>>)

\* a note of the section vocabulary ends in a newline when its last line is empty
SectionDocs == {DocOf(ls, FALSE) : ls \in LineSeqs(SectionLines, MaxSectionLines)}

TodoDocs == {DocOf(<<todos_header>> \o ls, TRUE) : ls \in LineSeqs(TodoLines, MaxTodoLines)}

PinnedDocs == {DocOf(<<custom_header>> \o ls, TRUE) : ls \in LineSeqs(PinnedLines, MaxPinnedLines)}

\* the vault with the daily directory, the note absent
DailyFs == Put(BaseFs, Parent(NotePath), Dir)

TextInit ==
  /\ fs \in {DailyFs} \cup {Put(DailyFs, NotePath, File(doc)) :
                             doc \in SectionDocs \cup TodoDocs \cup PinnedDocs}
  /\ last = Idle
  /\ mem = NoMem

ExtractSection ==
  /\ last.op = "idle"
  /\ \E section_name \in {todos, custom_notes} :
       last' = Call("extract_section", sebastian, NotePath, section_name,
                    Return(fs, extract_section(fs, NotePath, section_name)))
  /\ UNCHANGED <<fs, mem>>

ExtractIncompleteTodos ==
  /\ last.op = "idle"
  /\ last' = Call("extract_incomplete_todos", sebastian, NotePath, <<>>,
                  Return(fs, extract_incomplete_todos(fs, NotePath)))
  /\ UNCHANGED <<fs, mem>>

ExtractPinnedNotes ==
  /\ last.op = "idle"
  /\ last' = Call("extract_pinned_notes", sebastian, NotePath, <<>>,
                  Return(fs, extract_pinned_notes(fs, NotePath)))
  /\ UNCHANGED <<fs, mem>>

TextNext == ExtractSection \/ ExtractIncompleteTodos \/ ExtractPinnedNotes \/ Respond

SpecText == TextInit /\ [][TextNext]_vars

(***************************************************************************)
(* Claims on the section engine                                            *)
(***************************************************************************)
\* the lines of the note, none when the note is absent
NoteLines(f) == IF exists(f, NotePath) THEN split(read_text(f, NotePath).ret, "\n") ELSE <<>>

\* a line of only whitespace, or empty
IsBlank(line) == strip(line) = <<>>

\* the line, taken alone, is a header of the section
IsHeaderLine(line, section_name) == HeaderEnd(line, 0, section_name) # NoMatch

\* the indices of the header lines of the section
HeaderLines(lines, section_name) == {i \in 1..Len(lines) : IsHeaderLine(lines[i], section_name)}

\* the index of the last line of the section that starts at header line h
SectionLast(lines, h) ==
  LET nexts == {i \in (h + 1)..Len(lines) : startswith(lines[i], <<"#", "#", " ">>)}
  IN IF nexts = {} THEN Len(lines) ELSE Min(nexts) - 1

\* the lines after the first header line of the section up to the next "## " line
BodyLines(lines, section_name) ==
  LET h == Min(HeaderLines(lines, section_name))
  IN SubSeq(lines, h + 1, SectionLast(lines, h))

\* the lines without their leading and trailing blank lines
TrimBlankLines(lines) ==
  LET keep == {i \in 1..Len(lines) : ~IsBlank(lines[i])}
  IN IF keep = {} THEN <<>> ELSE SubSeq(lines, Min(keep), Max(keep))

\* the first header line of the section is followed at once by a "## " line or by the
\* end of the document
HeaderThenNothing(lines, section_name) ==
  /\ HeaderLines(lines, section_name) # {}
  /\ BodyLines(lines, section_name) \in {<<>>, <<<<>>>>}
  /\ BodyLines(lines, section_name) = <<<<>>>> =>
       SectionLast(lines, Min(HeaderLines(lines, section_name))) = Len(lines)

\* C6: extract_section returns the empty string for every document without a header
\* line for the requested section, and when the header line is followed at once by
\* another "## " header or by the end of the document.
C6_NoSectionIsEmpty ==
  last.op = "extract_section" =>
    /\ HeaderLines(NoteLines(fs), last.arg) = {} => last.ret = <<>>
    /\ HeaderThenNothing(NoteLines(fs), last.arg) => last.ret = <<>>

\* C7: with one or more header lines for the name, extract_section returns the lines
\* after the first of them up to the next "## " line, without the leading and trailing
\* blank lines and otherwise unchanged, the indentation of the first line included.
C7_SectionBody ==
  (last.op = "extract_section" /\ HeaderLines(NoteLines(fs), last.arg) # {}) =>
    last.ret = join(TrimBlankLines(BodyLines(NoteLines(fs), last.arg)), NL)

\* the box of a todo line: "open" for - [ ], "done" for - [x] and - [X], after any
\* leading whitespace
Checkbox(line) ==
  LET item == Slice(line, SkipSpaces(line, 0), Len(line))
  IN IF startswith(item, <<"-", " ", "[", " ", "]">>) THEN "open"
     ELSE IF MatchAtCI(item, 0, <<"-", " ", "[", "x", "]">>) THEN "done"
     ELSE "none"

\* the todos section of the note holds checkbox lines and nothing else
TodosAreCheckboxes(lines) ==
  /\ HeaderLines(lines, todos) # {}
  /\ TrimBlankLines(BodyLines(lines, todos)) # <<>>
  /\ \A i \in 1..Len(TrimBlankLines(BodyLines(lines, todos))) :
       Checkbox(TrimBlankLines(BodyLines(lines, todos))[i]) # "none"

\* C8: for a todos section of checkbox lines at any indentation, extract_incomplete_todos
\* returns exactly the lines that are not complete, in their order, each with its
\* leading whitespace.
C8_IncompleteTodos ==
  (last.op = "extract_incomplete_todos" /\ TodosAreCheckboxes(NoteLines(fs))) =>
    last.ret = join(SelectSeq(TrimBlankLines(BodyLines(NoteLines(fs), todos)),
                              LAMBDA line : Checkbox(line) # "done"), NL)

\* the lines of the custom notes section as extract_section returns it
CustomLines(f) == split(extract_section(f, NotePath, custom_notes), "\n")

IsEntryHeader(line) == startswith(line, entry_prefix)

\* line i belongs to an entry whose "### " header carries <pinned> in any case
Retained(lines, i) ==
  LET headers == {j \in 1..i : IsEntryHeader(lines[j])}
  IN /\ headers # {}
     /\ Contains(lower(lines[Max(headers)]), pinned_marker)

\* the retained lines in document order, a blank line before each retained header but
\* the first
RetainedLines(lines) ==
  Concat([i \in 1..Len(lines) |->
            IF ~Retained(lines, i) THEN <<>>
            ELSE IF IsEntryHeader(lines[i]) /\ \E j \in 1..(i - 1) : Retained(lines, j)
                 THEN <<<<>>, lines[i]>>
                 ELSE <<lines[i]>>])

\* C9: extract_pinned_notes retains exactly the "### " entries of the custom notes
\* section whose header contains <pinned> in any letter case, each with its header and
\* all its body lines, in document order and the last entry included; the result is
\* empty when the section is absent or empty.
C9_PinnedEntries ==
  last.op = "extract_pinned_notes" =>
    /\ last.ret = join(RetainedLines(CustomLines(fs)), NL)
    /\ HeaderLines(NoteLines(fs), custom_notes) = {} => last.ret = <<>>
    /\ extract_section(fs, NotePath, custom_notes) = <<>> => last.ret = <<>>

\* an unpinned entry precedes the last entry, pinned in capitals, which is returned
\* with its body line
C9_Witness ==
  /\ last.op = "extract_pinned_notes"
  /\ CustomLines(fs) = <<plain_entry, PINNED_entry, <<"x">>>>
  /\ last.ret = PINNED_entry \o NL \o <<"x">>

\* C10: the output of extract_pinned_notes is trimmed and two retained entries that
\* follow each other are separated by exactly one blank line; an only pinned entry
\* between two others comes back with no blank line or newline before or after it.
C10_PinnedOutputTrimmed ==
  last.op = "extract_pinned_notes" =>
    LET out == split(last.ret, "\n")
    IN /\ last.ret = strip(last.ret)
       /\ \A i \in 2..Len(out) :
            IsEntryHeader(out[i]) =>
              /\ out[i - 1] = <<>>
              /\ i > 2 => ~IsBlank(out[i - 2])

(***************************************************************************)
(* Line mutators (main): toggle_todo, unpin_entry                          *)
(***************************************************************************)
\* lines[i] of a Python list, a negative i counted from the end
ListItem(lines, i) == IF i < 0 THEN lines[Len(lines) + i + 1] ELSE lines[i + 1]

\* lines with lines[i] = item
ListSet(lines, i, item) ==
  [lines EXCEPT ![IF i < 0 THEN Len(lines) + i + 1 ELSE i + 1] = item]

\* "\n".join(lines), and the final newline if content had one
rejoin(lines, content) == join(lines, NL) \o (IF endswith(content, NL) THEN NL ELSE <<>>)

\* re.match(r"^\s*-\s*\[\s*\]\s*", target)
IsOpenTodo(target) ==
  /\ MatchAt(target, SkipSpaces(target, 0), <<"-">>)
  /\ MatchAt(target, SkipSpaces(target, SkipSpaces(target, 0) + 1), <<"[">>)
  /\ MatchAt(target, SkipSpaces(target, SkipSpaces(target, SkipSpaces(target, 0) + 1) + 1), <<"]">>)

\* re.match(r"^\s*-\s*\[x\]\s*", target), case-sensitive
IsDoneTodo_case_sensitive(target) ==
  /\ MatchAt(target, SkipSpaces(target, 0), <<"-">>)
  /\ MatchAt(target, SkipSpaces(target, SkipSpaces(target, 0) + 1), <<"[", "x", "]">>)

\* re.match(r"^\s*-\s*\[x\]\s*", target, re.IGNORECASE)
IsDoneTodo(target) ==
  /\ MatchAt(target, SkipSpaces(target, 0), <<"-">>)
  /\ MatchAtCI(target, SkipSpaces(target, SkipSpaces(target, 0) + 1), <<"[", "x", "]">>)

\* the end of a match of \[\s*\] that starts at offset pos
OpenBoxEnd(s, pos) ==
  IF MatchAt(s, pos, <<"[">>) /\ MatchAt(s, SkipSpaces(s, pos + 1), <<"]">>)
  THEN SkipSpaces(s, pos + 1) + 1
  ELSE NoMatch

\* the end of a match of \[\s*x\s*\] under re.IGNORECASE that starts at offset pos
DoneBoxEnd(s, pos) ==
  IF /\ MatchAt(s, pos, <<"[">>)
     /\ MatchAtCI(s, SkipSpaces(s, pos + 1), <<"x">>)
     /\ MatchAt(s, SkipSpaces(s, SkipSpaces(s, pos + 1) + 1), <<"]">>)
  THEN SkipSpaces(s, SkipSpaces(s, pos + 1) + 1) + 1
  ELSE NoMatch

\* re.sub(r"\[\s*\]", "[x]", target, count=1)
check_first_box(target) ==
  LET starts == {pos \in 0..Len(target) : OpenBoxEnd(target, pos) # NoMatch}
  IN IF starts = {} THEN target
     ELSE Slice(target, 0, Min(starts)) \o <<"[", "x", "]">>
          \o Slice(target, OpenBoxEnd(target, Min(starts)), Len(target))

\* re.sub(r"\[\s*x\s*\]", "[ ]", target, count=1, flags=re.IGNORECASE)
uncheck_first_box(target) ==
  LET starts == {pos \in 0..Len(target) : DoneBoxEnd(target, pos) # NoMatch}
  IN IF starts = {} THEN target
     ELSE Slice(target, 0, Min(starts)) \o <<"[", " ", "]">>
          \o Slice(target, DoneBoxEnd(target, Min(starts)), Len(target))

\* a complete box is looked for without re.IGNORECASE
toggle_line_case_sensitive(target) ==
  IF IsOpenTodo(target) THEN [task |-> TRUE, line |-> check_first_box(target)]
  ELSE IF IsDoneTodo_case_sensitive(target) THEN [task |-> TRUE, line |-> uncheck_first_box(target)]
  ELSE [task |-> FALSE, line |-> target]

\* the branches of toggle_todo on the target line: the new line, or no task line
toggle_line(target) ==
  IF IsOpenTodo(target) THEN [task |-> TRUE, line |-> check_first_box(target)]
  ELSE IF IsDoneTodo(target) THEN [task |-> TRUE, line |-> uncheck_first_box(target)]
  ELSE [task |-> FALSE, line |-> target]

\* the answer of a handler after its git_commit_and_push: the sync message on failure
Answer(pushed, message, ran) ==
  Ran(Return(pushed.fs, Json(pushed.ret.success,
                             IF pushed.ret.success THEN message ELSE pushed.ret.message)),
      ran \o pushed.ran)

\* toggle_todo once the file is written
toggle_todo_written(written) ==
  IF written.err # NoErr THEN Ran(written, <<>>)
  ELSE Answer(git_commit_and_push(written.fs, "Toggle todo"), "Task updated", <<>>)

\* toggle_todo on the target line
toggle_todo_target(f, filepath, content, lines, line, toggled) ==
  IF ~toggled.task THEN Ran(Return(f, Json(TRUE, "Not a task line")), <<>>)
  ELSE toggle_todo_written(write_text(f, filepath,
                                      rejoin(ListSet(lines, line - 1, toggled.line), content)))

\* toggle_todo on the lines read
toggle_todo_lines(f, filepath, content, lines, line) ==
  IF line > Len(lines) THEN Ran(Raise(f, "HTTP 400: Line out of range"), <<>>)
  ELSE IF -line >= Len(lines) THEN Ran(Raise(f, "IndexError"), <<>>)
  ELSE toggle_todo_target(f, filepath, content, lines, line, toggle_line(ListItem(lines, line - 1)))

\* toggle_todo on the content read
toggle_todo_content(f, filepath, content, line) ==
  IF content.err # NoErr THEN Ran(content, <<>>)
  ELSE toggle_todo_lines(f, filepath, content.ret, splitlines(content.ret), line)

\* toggle_todo on the path resolved
toggle_todo_file(f, filepath, line) ==
  IF filepath.err # NoErr THEN Ran(filepath, <<>>)
  ELSE IF ~exists(f, filepath.ret) THEN Ran(Raise(f, "HTTP 404: File not found"), <<>>)
  ELSE toggle_todo_content(f, filepath.ret, read_text(f, filepath.ret), line)

\* toggle_todo from ensure_person on, once the line number has passed line < 1
toggle_todo_from_person(f, person, path, line) ==
  toggle_todo_file(f, resolve_path(f, person_relative_path(person, path)), line)

\* the line number is not checked against 1
toggle_todo_no_lower_bound(f, person, path, line) == toggle_todo_from_person(f, person, path, line)

\* POST /api/todos/toggle
toggle_todo(f, person, path, line) ==
  IF line < 1 THEN Ran(Raise(f, "HTTP 400: Invalid line number"), <<>>)
  ELSE toggle_todo_from_person(f, person, path, line)

\* re.match(r"^###\s+.*<pinned>.*$", target, re.IGNORECASE)
IsPinnedHeader(target) ==
  /\ MatchAt(target, 0, <<"#", "#", "#">>)
  /\ Len(target) > 3 /\ IsSpace(target[4])
  /\ \E pos \in 4..Len(target) : MatchAtCI(target, pos, pinned_marker)

RECURSIVE remove_pinned(_)
\* re.sub(r"\s*<pinned>\s*", "", target, flags=re.IGNORECASE): every match, left to right
remove_pinned(target) ==
  LET starts == {pos \in 0..Len(target) : MatchAtCI(target, SkipSpaces(target, pos), pinned_marker)}
      stop == SkipSpaces(target, SkipSpaces(target, Min(starts)) + Len(pinned_marker))
  IN IF starts = {} THEN target
     ELSE Slice(target, 0, Min(starts)) \o remove_pinned(Slice(target, stop, Len(target)))

\* unpin_entry once the file is written
unpin_entry_written(written) ==
  IF written.err # NoErr THEN Ran(written, <<>>)
  ELSE Answer(git_commit_and_push(written.fs, "Unpin entry"), "Entry unpinned", <<>>)

\* unpin_entry on the target line
unpin_entry_target(f, filepath, content, lines, line, target) ==
  IF ~IsPinnedHeader(target) THEN Ran(Return(f, Json(TRUE, "Entry already unpinned")), <<>>)
  ELSE unpin_entry_written(write_text(f, filepath,
                                      rejoin(ListSet(lines, line - 1, rstrip(remove_pinned(target))),
                                             content)))

\* unpin_entry on the lines read
unpin_entry_lines(f, filepath, content, lines, line) ==
  IF line > Len(lines) THEN Ran(Raise(f, "HTTP 400: Line out of range"), <<>>)
  ELSE unpin_entry_target(f, filepath, content, lines, line, ListItem(lines, line - 1))

\* unpin_entry on the content read
unpin_entry_content(f, filepath, content, line) ==
  IF content.err # NoErr THEN Ran(content, <<>>)
  ELSE unpin_entry_lines(f, filepath, content.ret, splitlines(content.ret), line)

\* unpin_entry on the path resolved
unpin_entry_file(f, filepath, line) ==
  IF filepath.err # NoErr THEN Ran(filepath, <<>>)
  ELSE IF ~exists(f, filepath.ret) THEN Ran(Raise(f, "HTTP 404: File not found"), <<>>)
  ELSE unpin_entry_content(f, filepath.ret, read_text(f, filepath.ret), line)

\* POST /api/files/unpin
unpin_entry(f, person, path, line) ==
  IF line < 1 THEN Ran(Raise(f, "HTTP 400: Invalid line number"), <<>>)
  ELSE unpin_entry_file(f, resolve_path(f, person_relative_path(person, path)), line)

(***************************************************************************)
(* Daily note materializer (main): get_most_recent_note, ensure_file_exists *)
(***************************************************************************)
md_suffix == <<".","m","d">>

\* get_today_filename for a clock that reads the date now, as %Y-%m-%d
get_today_filename(now) == now \o md_suffix

\* main.get_today_filepath
get_today_filepath(person, now) == person_root_path(person) \o <<daily, get_today_filename(now)>>

\* the name matches the glob ????-??-??.md
IsDateName(name) ==
  /\ Len(name) = 13
  /\ name[5] = "-" /\ name[8] = "-"
  /\ endswith(name, md_suffix)

RECURSIVE SortedReverse(_)
\* sorted(names, reverse=True)
SortedReverse(names) ==
  IF names = {} THEN <<>>
  ELSE LET top == CHOOSE n \in names : \A m \in names \ {n} : StrLess(m, n)
       IN <<top>> \o SortedReverse(names \ {top})

\* sorted(names), in place of sorted(names, reverse=True)
RECURSIVE SortedForward(_)
SortedForward(names) ==
  IF names = {} THEN <<>>
  ELSE LET low == CHOOSE n \in names : \A m \in names \ {n} : StrLess(n, m)
       IN <<low>> \o SortedForward(names \ {low})

\* the oldest note is taken as the previous one
get_most_recent_note_oldest(f, person, now) ==
  LET daily_dir == Append(person_root_path(person), daily)
      note_files == SortedForward({n \in iterdir(f, daily_dir) : IsDateName(n)})
      others == SelectSeq(note_files, LAMBDA n : n # get_today_filename(now))
  IN IF ~exists(f, daily_dir) \/ others = <<>> THEN None
     ELSE Append(daily_dir, Head(others))

\* main.get_most_recent_note
get_most_recent_note(f, person, now) ==
  LET daily_dir == Append(person_root_path(person), daily)
      note_files == SortedReverse({n \in iterdir(f, daily_dir) : IsDateName(n)})
      others == SelectSeq(note_files, LAMBDA n : n # get_today_filename(now))
  IN IF ~exists(f, daily_dir) \/ others = <<>> THEN None
     ELSE Append(daily_dir, Head(others))

daily_title == <<"#"," ","d","a","i","l","y"," ">>

\* the section ensure_file_exists adds for text under a header, none for no text
seeded_section(header, text) ==
  IF text # <<>> THEN header \o NL \o NL \o text \o NL \o NL ELSE <<>>

\* the content ensure_file_exists composes from the previous note
compose_note(f, previous_note, now) ==
  IF previous_note = None THEN daily_title \o now \o NL \o NL
  ELSE daily_title \o now \o NL \o NL
       \o seeded_section(todos_header, extract_incomplete_todos(f, previous_note))
       \o seeded_section(custom_header, extract_pinned_notes(f, previous_note))

\* ensure_file_exists once the note is written
create_note_written(written, now) ==
  IF written.err # NoErr THEN Ran(written, <<>>)
  ELSE Ran(Return(git_commit_and_push(written.fs, <<"Create daily note ", now>>).fs, None),
           git_commit_and_push(written.fs, <<"Create daily note ", now>>).ran)

\* ensure_file_exists from the previous note found
create_note_from(f, previous_note, filepath, now) ==
  IF previous_note # None /\ is_dir(f, previous_note) THEN Ran(Raise(f, "IsADirectoryError"), <<>>)
  ELSE create_note_written(write_text(f, filepath, compose_note(f, previous_note, now)), now)

\* ensure_file_exists for a note that does not exist, the parent directories made
create_note(made, person, filepath, now) ==
  IF made.err # NoErr THEN Ran(made, <<>>)
  ELSE create_note_from(made.fs, get_most_recent_note(made.fs, person, now), filepath, now)

\* the note is written whether or not it exists
ensure_file_exists_always(f, person, filepath, now) ==
  create_note(mkdir_parents(f, Parent(filepath)), person, filepath, now)

\* main.ensure_file_exists
ensure_file_exists(f, person, filepath, now) ==
  IF exists(f, filepath) THEN Ran(Return(f, None), <<>>)
  ELSE create_note(mkdir_parents(f, Parent(filepath)), person, filepath, now)

(***************************************************************************)
(* Todo and sleep-times endpoints (main)                                   *)
(***************************************************************************)
work == <<"w","o","r","k">>

priv == <<"p","r","i","v">>

empty_todo == <<"-"," ","["," ","]">>

category_prefix == <<"#","#","#"," ">>

\* re.match(r"^##\s+todo(?:s)?\s*$", line, re.IGNORECASE)
IsTodoHeading(line) ==
  LET name == SkipSpaces(line, 2)
  IN /\ MatchAt(line, 0, <<"#", "#">>)
     /\ name > 2
     /\ MatchAtCI(line, name, <<"t", "o", "d", "o">>)
     /\ \/ SkipSpaces(line, name + 4) = Len(line)
        \/ MatchAtCI(line, name + 4, <<"s">>) /\ SkipSpaces(line, name + 5) = Len(line)

\* re.match(r"^##\s+", line)
IsSectionHeading(line) == MatchAt(line, 0, <<"#", "#">>) /\ Len(line) > 2 /\ IsSpace(line[3])

\* re.match(rf"^###\s+{re.escape(category)}\s*$", line, re.IGNORECASE) for a category of letters
IsCategoryHeading(line, category) ==
  LET name == SkipSpaces(line, 3)
  IN /\ MatchAt(line, 0, <<"#", "#", "#">>)
     /\ name > 3
     /\ MatchAtCI(line, name, category)
     /\ SkipSpaces(line, name + Len(category)) = Len(line)

\* lines after lines.insert(i, item) for each item in turn at i, i + 1, ...
ListInsert(lines, i, items) == SubSeq(lines, 1, i) \o items \o SubSeq(lines, i + 1, Len(lines))

\* the lines add_task_to_todos builds: the branches on todo_index and sub_index
add_task_lines(lines, category) ==
  LET todo_lines == {k \in 1..Len(lines) : IsTodoHeading(lines[k])}
      todo_index == Min(todo_lines) - 1
      next_sections == {k \in (todo_index + 2)..Len(lines) : IsSectionHeading(lines[k])}
      section_end == IF next_sections = {} THEN Len(lines) ELSE Min(next_sections) - 1
      sub_lines == {k \in (todo_index + 2)..section_end : IsCategoryHeading(lines[k], category)}
      sub_index == Min(sub_lines) - 1
      block == <<category_prefix \o category, <<>>, empty_todo, <<>>>>
  IN IF todo_lines = {}
     THEN lines \o (IF lines # <<>> /\ strip(lines[Len(lines)]) # <<>> THEN <<<<>>>> ELSE <<>>)
          \o <<todos_header, <<>>>> \o block
     ELSE IF sub_lines = {}
     THEN ListInsert(lines, section_end,
                     (IF section_end > 0 /\ strip(lines[section_end]) # <<>> THEN <<<<>>>> ELSE <<>>)
                     \o block)
     ELSE ListInsert(lines,
                     IF sub_index + 1 < Len(lines) /\ strip(lines[sub_index + 2]) = <<>>
                     THEN sub_index + 2 ELSE sub_index + 1,
                     <<empty_todo>>)

\* the content add_task_to_todos writes for the content read
add_task_text(content, category) ==
  join(add_task_lines(splitlines(content), category), NL)
  \o (IF endswith(content, NL) THEN NL ELSE <<>>)

\* add_task_to_todos on the content read
add_task_content(f, filepath, content, category) ==
  IF content.err # NoErr THEN content
  ELSE write_text(f, filepath, add_task_text(content.ret, category))

\* main.add_task_to_todos
add_task_to_todos(f, filepath, category) ==
  add_task_content(f, filepath,
                   IF exists(f, filepath) THEN read_text(f, filepath) ELSE Return(f, <<>>),
                   category)

\* add_todo once the task is added
add_todo_added(added, category, ran) ==
  IF added.err # NoErr THEN Ran(added, ran)
  ELSE Answer(git_commit_and_push(added.fs, <<"Add ", category, " task">>), "Task added", ran)

\* add_todo once today's note is ensured
add_todo_ensured(ensured, filepath, category) ==
  IF ensured.err # NoErr THEN ensured
  ELSE add_todo_added(add_task_to_todos(ensured.fs, filepath, category), category, ensured.ran)

\* POST /api/todos/add
add_todo(f, person, category, now) ==
  IF lower(strip(category)) \notin {work, priv}
  THEN Ran(Raise(f, "HTTP 400: Invalid category"), <<>>)
  ELSE add_todo_ensured(ensure_file_exists(f, person, get_today_filepath(person, now), now),
                        get_today_filepath(person, now), lower(strip(category)))

sleep_times_md == <<"s","l","e","e","p","_","t","i","m","e","s",".","m","d">>

\* main.get_sleep_times_filepath
get_sleep_times_filepath == Append(VAULT_ROOT, sleep_times_md)

sleep_times_intro ==
  <<"#"," ","S","l","e","e","p"," ","T","i","m","e","s","\n","\n">>
  \o <<"L","o","g"," ","e","n","t","r","i","e","s"," ","i","n"," ","t","h","e"," ","f","o","r","m","a","t",":","\n">>
  \o <<"-"," ","Y","Y","Y","Y","-","M","M","-","D","D"," ","|"," ","N","a","m","e"," ","|"," ","1","9",":","3","0","-","0","6",":","1","0"," ","|"," ","n","i","g","h","t","\n","\n">>

\* ensure_sleep_times_file_exists once the log is written
create_sleep_times_written(written) ==
  IF written.err # NoErr THEN Ran(written, <<>>)
  ELSE Ran(Return(git_commit_and_push(written.fs, "Create sleep times log").fs, None),
           git_commit_and_push(written.fs, "Create sleep times log").ran)

\* main.ensure_sleep_times_file_exists
ensure_sleep_times_file_exists(f, filepath) ==
  IF exists(f, filepath) THEN Ran(Return(f, None), <<>>)
  ELSE create_sleep_times_written(write_text(f, filepath, sleep_times_intro))

\* lines after lines.pop(i)
ListPop(lines, i) == SubSeq(lines, 1, i) \o SubSeq(lines, i + 2, Len(lines))

\* delete_sleep_entry once the log is written
delete_sleep_entry_written(written, ran) ==
  IF written.err # NoErr THEN Ran(written, ran)
  ELSE Answer(git_commit_and_push(written.fs, "Delete sleep times entry"), "Entry deleted", ran)

\* delete_sleep_entry on the lines read
delete_sleep_entry_lines(f, filepath, content, lines, line, ran) ==
  IF line > Len(lines) THEN Ran(Raise(f, "HTTP 400: Line out of range"), ran)
  ELSE delete_sleep_entry_written(write_text(f, filepath, rejoin(ListPop(lines, line - 1), content)),
                                  ran)

\* delete_sleep_entry on the content read
delete_sleep_entry_content(f, filepath, content, line, ran) ==
  IF content.err # NoErr THEN Ran(content, ran)
  ELSE delete_sleep_entry_lines(f, filepath, content.ret, splitlines(content.ret), line, ran)

\* delete_sleep_entry once the log is ensured
delete_sleep_entry_ensured(ensured, filepath, line) ==
  IF ensured.err # NoErr THEN ensured
  ELSE delete_sleep_entry_content(ensured.fs, filepath, read_text(ensured.fs, filepath), line,
                                  ensured.ran)

\* POST /api/sleep-times/delete
delete_sleep_entry(f, line) ==
  IF line < 1 THEN Ran(Raise(f, "HTTP 400: Invalid line number"), <<>>)
  ELSE delete_sleep_entry_ensured(ensure_sleep_times_file_exists(f, get_sleep_times_filepath),
                                  get_sleep_times_filepath, line)

(***************************************************************************)
(* SpecDaily: the materializer and the line mutators on one vault          *)
(***************************************************************************)
yesterday == <<"2","0","2","4","-","0","1","-","0","1">>

today == <<"2","0","2","4","-","0","1","-","0","2">>

tomorrow == <<"2","0","2","4","-","0","1","-","0","3">>

two_box_todo == <<"-"," ","[","x","]"," ","c"," ","["," ","]">>

nested_marker_entry == <<"#","#","#"," ","<","p","i","n","<","p","i","n","n","e","d",">","n","e","d",">">>

form_feed == <<"\f">>

\* lines for toggle_todo
CheckboxLines == {open_todo, nested_done_todo, two_box_todo, form_feed}

\* lines for unpin_entry and add_task_to_todos
HeadingLines == {pinned_entry, nested_marker_entry, todos_header}

NoteDocs ==
  {DocOf(ls, nl) : ls \in LineSeqs(CheckboxLines, MaxNoteLines) \cup LineSeqs(HeadingLines, MaxNoteLines),
                   nl \in BOOLEAN}

sleep_entry == <<"-"," ","2","4","-","0","1","-","0","1"," ","|"," ","a">>

\* lines of the sleep-times log
SleepLines == {sleep_entry, form_feed}

SleepDocs == {DocOf(ls, nl) : ls \in LineSeqs(SleepLines, MaxNoteLines), nl \in BOOLEAN}

\* the note of the materializer scenario
ExampleNote ==
  <<"#","#"," ","t","o","d","o","s","\n","\n","-"," ","["," ","]"," ","b","u","y"," ","m","i","l","k","\n","-"," ","[","x","]"," ","c","a","l","l"," ","b","o","b","\n","\n">>
  \o <<"#","#"," ","c","u","s","t","o","m"," ","n","o","t","e","s","\n","\n","#","#","#"," ","0","9",":","0","0"," ","<","p","i","n","n","e","d",">","\n","\n","r","e","m","e","m","b","e","r"," ","X","\n">>

\* earlier notes: with todos and pinned entries, with completed todos only, with a pinned
\* entry only, with neither
CarryDocs ==
  {ExampleNote,
   <<"#","#"," ","t","o","d","o","s","\n","-"," ","[","x","]"," ","b","\n">>,
   <<"#","#"," ","c","u","s","t","o","m"," ","n","o","t","e","s","\n","#","#","#"," ","a"," ","<","p","i","n","n","e","d",">","\n","x","\n">>,
   <<"x">>}

\* the vault f with the file p of content doc, or without it for no doc
WithFile(f, p, doc) == IF doc = None THEN f ELSE Put(f, p, File(doc))

\* the vaults of the materializer: notes of other days, today's note, another person's note
CarryFs ==
  {WithFile(WithFile(WithFile(WithFile(DailyFs,
       get_today_filepath(sebastian, yesterday), before),
       get_today_filepath(sebastian, tomorrow), after),
       get_today_filepath(sebastian, today), current),
       Append(person_root_path(petra), get_today_filename(tomorrow)), other)
   : before \in CarryDocs \cup {None}, after \in {<<"x">>, ExampleNote, None},
     current \in {<<"x">>, None}, other \in {ExampleNote, None}}

\* the vaults of the line mutators: today's note or the sleep-times log holds the document
MutatorFs ==
  {Put(DailyFs, get_today_filepath(sebastian, today), File(doc)) : doc \in NoteDocs}
  \cup {Put(DailyFs, get_sleep_times_filepath, File(doc)) : doc \in SleepDocs}

DailyInit ==
  /\ fs \in {BaseFs} \cup CarryFs \cup MutatorFs
  /\ last = Idle
  /\ mem = NoMem

\* the call just made with the commands it ran
Handled(op, person, path, arg, r) ==
  /\ fs' = r.fs
  /\ last' = [op |-> op, person |-> person, path |-> path, arg |-> arg,
              err |-> r.err, ret |-> r.ret, ran |-> r.ran]
  /\ UNCHANGED mem

\* the request paths of the line mutators: the notes of today and of yesterday
NotePaths == {daily \o SLASH \o get_today_filename(today), daily \o SLASH \o get_today_filename(yesterday)}

LineNumbers == (0 - 1)..(MaxNoteLines + 1)

\* the number of lines of file p, 0 for no file
LineCount(f, p) == IF exists(f, p) /\ ~is_dir(f, p) THEN Len(splitlines(read_text(f, p).ret)) ELSE 0

\* the sleep-times log and the daily notes are files no handler touches together: a vault
\* is explored with the one or with the others
NoSleepLog(f) == ~exists(f, get_sleep_times_filepath)

NoDailyNotes(f) == \A person \in PERSONS : iterdir(f, Append(person_root_path(person), daily)) = {}

EnsureFileExists ==
  /\ last.op = "idle"
  /\ NoSleepLog(fs)
  /\ \E person \in PERSONS :
       Handled("ensure_file_exists", person, get_today_filepath(person, today), today,
               ensure_file_exists(fs, person, get_today_filepath(person, today), today))

ToggleTodo ==
  /\ last.op = "idle"
  /\ NoSleepLog(fs)
  /\ \E path \in NotePaths, line \in LineNumbers :
       Handled("toggle_todo", sebastian, path, line, toggle_todo(fs, sebastian, path, line))

UnpinEntry ==
  /\ last.op = "idle"
  /\ NoSleepLog(fs)
  /\ \E path \in NotePaths, line \in LineNumbers :
       Handled("unpin_entry", sebastian, path, line, unpin_entry(fs, sebastian, path, line))

AddTodo ==
  /\ last.op = "idle"
  /\ NoSleepLog(fs)
  /\ LineCount(fs, get_today_filepath(sebastian, today)) <= MaxNoteLines
  /\ \E category \in {work, <<" ","P","r","i","v">>, <<"x">>} :
       Handled("add_todo", sebastian, get_today_filepath(sebastian, today), category,
               add_todo(fs, sebastian, category, today))

DeleteSleepEntry ==
  /\ last.op = "idle"
  /\ NoDailyNotes(fs)
  /\ \E line \in LineNumbers :
       Handled("delete_sleep_entry", sebastian, get_sleep_times_filepath, line,
               delete_sleep_entry(fs, line))

DailyNext ==
  EnsureFileExists \/ ToggleTodo \/ UnpinEntry \/ AddTodo \/ DeleteSleepEntry \/ Respond

SpecDaily == DailyInit /\ [][DailyNext]_vars

(***************************************************************************)
(* Claims on the materializer and the line mutators                        *)
(***************************************************************************)
\* C11: if today's note for the person already exists, ensure_file_exists changes no file,
\* creates no file and runs no commit or push; and after any call that returned, a further
\* call is that no-op, so any number of calls in a row leave the state one call leaves
C11_EnsureIdempotent ==
  [][last'.op = "ensure_file_exists" =>
       /\ exists(fs, last'.path) =>
            /\ fs' = fs
            /\ last'.err = NoErr
            /\ last'.ran = <<>>
       /\ last'.err = NoErr =>
            /\ exists(fs', last'.path)
            /\ ensure_file_exists(fs', last'.person, last'.path, last'.arg)
                 = Ran(Return(fs', None), <<>>)]_vars

\* a call of ensure_file_exists that found today's note and returned without a sync
C11_Witness ==
  /\ last.op = "ensure_file_exists"
  /\ last.err = NoErr
  /\ last.ran = <<>>
  /\ exists(fs, last.path)

\* the daily files of the person that match the date pattern, today's file apart
EarlierNames(f, person, now) ==
  {n \in iterdir(f, Append(person_root_path(person), daily)) :
     IsDateName(n) /\ n # now \o md_suffix}

\* the first of them in reverse lexicographic order, None for none
PreviousNote(f, person, now) ==
  IF EarlierNames(f, person, now) = {} THEN None
  ELSE person_root_path(person)
       \o <<daily, CHOOSE n \in EarlierNames(f, person, now) :
                     \A m \in EarlierNames(f, person, now) : m = n \/ StrLess(m, n)>>

\* a section of the new note: the header, a blank line, the text, a blank line
SeededWith(header, text) == header \o <<"\n","\n">> \o text \o <<"\n","\n">>

\* the note the materializer is to write at the date now for the person
ExpectedNote(f, person, now) ==
  LET previous == PreviousNote(f, person, now)
      open == IF previous = None THEN <<>> ELSE extract_incomplete_todos(f, previous)
      kept == IF previous = None THEN <<>> ELSE extract_pinned_notes(f, previous)
  IN <<"#"," ","d","a","i","l","y"," ">> \o now \o <<"\n","\n">>
     \o (IF open = <<>> THEN <<>> ELSE SeededWith(<<"#","#"," ","t","o","d","o","s">>, open))
     \o (IF kept = <<>> THEN <<>> ELSE SeededWith(<<"#","#"," ","c","u","s","t","o","m"," ","n","o","t","e","s">>, kept))

\* today's note made from the note of the materializer scenario
ExampleResult ==
  <<"#"," ","d","a","i","l","y"," ","2","0","2","4","-","0","1","-","0","2","\n","\n","#","#"," ","t","o","d","o","s","\n","\n","-"," ","["," ","]"," ","b","u","y"," ","m","i","l","k","\n","\n","#","#"," ","c","u","s","t","o","m"," ","n","o","t","e","s","\n","\n","#","#","#"," ","0","9",":","0","0"," ","<","p","i","n","n","e","d",">","\n","\n","r","e","m","e","m","b","e","r"," ","X","\n","\n">>

\* C12: when today's note is absent, ensure_file_exists writes the title line and a blank
\* line, then from the previous note (the first in reverse lexicographic order among the
\* person's date-named daily files other than today's) a todos section with its incomplete
\* todos if there are any and a custom notes section with its pinned entries if there are
\* any, and nothing else; from the scenario's note it writes ExampleResult
C12_MaterializedNote ==
  [][last'.op = "ensure_file_exists" /\ ~exists(fs, last'.path) /\ last'.err = NoErr =>
       /\ exists(fs', last'.path)
       /\ read_text(fs', last'.path).ret = ExpectedNote(fs, last'.person, last'.arg)
       /\ (/\ PreviousNote(fs, last'.person, last'.arg) # None
           /\ read_text(fs, PreviousNote(fs, last'.person, last'.arg)).ret = ExampleNote)
          => read_text(fs', last'.path).ret = ExampleResult]_vars

\* today's note made from the scenario's note while an older note with other content exists
C12_Witness ==
  /\ last.op = "ensure_file_exists"
  /\ last.err = NoErr
  /\ last.ran # <<>>
  /\ read_text(fs, last.path).ret = ExampleResult
  /\ exists(fs, get_today_filepath(last.person, yesterday))
  /\ read_text(fs, get_today_filepath(last.person, yesterday)).ret # ExampleNote

\* the file a line mutator works on for the person and the request path
TargetFile(f, person, path) == resolve_path(f, person_relative_path(person, path)).ret

\* C13: toggle_todo and unpin_entry answer a line number below 1, and a line number above
\* the line count of the document, with an error, leave every file as it was and run no
\* commit or push
C13_LineOutOfRange ==
  [][/\ last'.op \in {"toggle_todo", "unpin_entry"}
     /\ \/ last'.arg < 1
        \/ /\ exists(fs, TargetFile(fs, last'.person, last'.path))
           /\ last'.arg > LineCount(fs, TargetFile(fs, last'.person, last'.path))
     => /\ last'.err = (IF last'.arg < 1 THEN "HTTP 400: Invalid line number"
                        ELSE "HTTP 400: Line out of range")
        /\ fs' = fs
        /\ last'.ran = <<>>]_vars

\* a toggle of line 0 of a note that holds lines, rejected
C13_Witness ==
  /\ last.op = "toggle_todo"
  /\ last.arg = 0
  /\ last.err = "HTTP 400: Invalid line number"
  /\ LineCount(fs, TargetFile(fs, last.person, last.path)) > 0

\* the lines of the file p
LinesOf(f, p) == splitlines(read_text(f, p).ret)

\* the positions of the first [ of a line and of the first ] after it, 0 for none
BoxOpen(line) ==
  IF \E i \in 1..Len(line) : line[i] = "[" THEN Min({i \in 1..Len(line) : line[i] = "["}) ELSE 0

BoxClose(line) ==
  LET open == BoxOpen(line)
  IN IF \E j \in (open + 1)..Len(line) : line[j] = "]"
     THEN Min({j \in (open + 1)..Len(line) : line[j] = "]"})
     ELSE 0

\* a checkbox line: indentation, a dash, a box [...] with nothing but spaces in between
IsCheckboxLine(line) ==
  LET open == BoxOpen(line)
  IN /\ open > 0 /\ BoxClose(line) > 0
     /\ \E dash \in 1..(open - 1) :
          /\ line[dash] = "-"
          /\ \A i \in 1..(open - 1) : i # dash => IsSpace(line[i])

\* what the first box of the line holds
BoxMark(line) == SubSeq(line, BoxOpen(line) + 1, BoxClose(line) - 1)

IsIncomplete(line) ==
  IsCheckboxLine(line) /\ LET mark == BoxMark(line) IN \A i \in 1..Len(mark) : IsSpace(mark[i])

IsComplete(line) == IsCheckboxLine(line) /\ BoxMark(line) \in {<<"x">>, <<"X">>}

\* the line with its first box replaced by box, all else as it was
WithFirstBox(line, box) ==
  SubSeq(line, 1, BoxOpen(line) - 1) \o box \o SubSeq(line, BoxClose(line) + 1, Len(line))

\* toggle_todo has turned the line before into the line after, or has left the vault alone
Toggled(before, after) ==
  /\ last'.err = NoErr
  /\ IsIncomplete(before) =>
       /\ after = WithFirstBox(before, <<"[", "x", "]">>)
       /\ last'.ret = Json(TRUE, "Task updated")
  /\ IsComplete(before) =>
       /\ after = WithFirstBox(before, <<"[", " ", "]">>)
       /\ last'.ret = Json(TRUE, "Task updated")
  /\ ~IsIncomplete(before) /\ ~IsComplete(before) =>
       /\ last'.ret = Json(TRUE, "Not a task line")
       /\ fs' = fs
       /\ last'.ran = <<>>

\* C14: toggle_todo on an in-range line makes an incomplete checkbox line complete and a
\* complete one (x or X) incomplete, changing the first box of the line only; on any other
\* line it answers 'Not a task line' as a success, leaves every file as it was and runs no
\* commit or push
C14_ToggleFlipsFirstBox ==
  [][last'.op = "toggle_todo" =>
       \A p \in {TargetFile(fs, last'.person, last'.path)} :
         exists(fs, p) =>
           \A before \in {LinesOf(fs, p)}, after \in {LinesOf(fs', p)} :
             last'.arg \in 1..Len(before) =>
               Toggled(before[last'.arg],
                       IF last'.arg \in 1..Len(after) THEN after[last'.arg] ELSE None)]_vars

\* a complete line that holds a second, empty box, toggled: the second box is as it was
C14_Witness ==
  /\ last.op = "toggle_todo"
  /\ last.err = NoErr
  /\ last.ret = Json(TRUE, "Task updated")
  /\ last.arg \in 1..LineCount(fs, TargetFile(fs, last.person, last.path))
  /\ LinesOf(fs, TargetFile(fs, last.person, last.path))[last.arg]
       = <<"-"," ","[","x","]"," ","c"," ","["," ","]">>

\* a todo line: indentation, a dash and a box [ ], [x] or [X]
IsTodoLine(line) == IsCheckboxLine(line) /\ BoxMark(line) \in {<<" ">>, <<"x">>, <<"X">>}

\* C15: toggle_todo is its own inverse: after a toggle of a todo line, a second toggle of
\* the same line gives the line its original text back
C15_ToggleTwiceRestores ==
  [][last'.op = "toggle_todo" =>
       \A p \in {TargetFile(fs, last'.person, last'.path)} :
         exists(fs, p) =>
           \A before \in {LinesOf(fs, p)} :
             (last'.arg \in 1..Len(before) /\ IsTodoLine(before[last'.arg])) =>
               \A again \in {LinesOf(toggle_todo(fs', last'.person, last'.path, last'.arg).fs, p)} :
                 /\ last'.arg \in 1..Len(again)
                 /\ again[last'.arg] = before[last'.arg]]_vars

\* a pinned entry header: ###, a space, and the marker <pinned> in any case after it
IsPinnedLine(line) ==
  /\ Len(line) > 3
  /\ SubSeq(line, 1, 4) = <<"#", "#", "#", " ">>
  /\ \E i \in 5..Len(line) :
       i + 7 <= Len(line) /\ lower(SubSeq(line, i, i + 7)) = <<"<","p","i","n","n","e","d",">">>

\* C16: after one unpin_entry on a pinned ### header line, a second unpin_entry on the
\* same line answers 'Entry already unpinned', changes no file and runs no commit or push
C16_UnpinTwice ==
  [][last'.op = "unpin_entry" /\ last'.err = NoErr =>
       \A p \in {TargetFile(fs, last'.person, last'.path)} :
         exists(fs, p) =>
           \A before \in {LinesOf(fs, p)} :
             (last'.arg \in 1..Len(before) /\ IsPinnedLine(before[last'.arg])) =>
               \A second \in {unpin_entry(fs', last'.person, last'.path, last'.arg)} :
                 /\ second.err = NoErr
                 /\ second.ret = Json(TRUE, "Entry already unpinned")
                 /\ second.fs = fs'
                 /\ second.ran = <<>>]_vars

\* the file a line mutation rewrites in the step
RewrittenFile ==
  IF last'.op \in {"toggle_todo", "unpin_entry"} THEN TargetFile(fs, last'.person, last'.path)
  ELSE last'.path

\* all lines but line i are the same in both, and there are as many
SameButLine(before, after, i) ==
  /\ Len(after) = Len(before)
  /\ \A k \in 1..Len(before) : k # i => after[k] = before[k]

\* C17: a whole-file rewrite by toggle_todo, unpin_entry, add_task_to_todos (under add_todo)
\* or delete_sleep_entry leaves a file that ends with a newline if and only if the original
\* did; toggle_todo and unpin_entry leave the line count and every line but the target
\* line as they were
C17_RewriteKeepsShape ==
  [][/\ last'.op \in {"toggle_todo", "unpin_entry", "add_todo", "delete_sleep_entry"}
     /\ last'.err = NoErr
     => \A p \in {RewrittenFile} :
          (exists(fs, p) /\ fs'[p] # fs[p]) =>
            \A old \in {read_text(fs, p).ret}, new \in {read_text(fs', p).ret} :
              /\ endswith(new, NL) <=> endswith(old, NL)
              /\ last'.op \in {"toggle_todo", "unpin_entry"} =>
                   SameButLine(splitlines(old), splitlines(new), last'.arg)]_vars

(***************************************************************************)
(* SpecSync: the sync coordinator on a vault with a repository              *)
(***************************************************************************)
c_md == <<"c",".","m","d">>

\* the files the handlers and the other clone write
SyncFiles == {Append(person_root_path(sebastian), a_md), Append(person_root_path(sebastian), c_md)}

\* what a handler writes
local_text == <<"l","\n">>

\* what the other clone writes
remote_text == <<"r","\n">>

\* the markers of .git
Markers == {index_lock, MERGE_HEAD, rebase_merge}

\* one disturbance at a time: no marker and every process starts
Undisturbed(f) == Repo(f).spawn = <<>> /\ \A p \in Markers : ~exists(f, p)

\* a repository, the remote branch at the same commit as the checked-out branch or with no
\* commit yet
Cloned(tree, remote, reachable) ==
  [kind |-> "dir", target |-> <<>>,
   data |-> [head |-> tree, commits |-> IF tree = <<>> THEN {} ELSE {1},
             origin |-> remote, base |-> remote.tree, remote |-> remote,
             reachable |-> reachable, spawn |-> <<>>]]

\* the process that does not start is one of the first MaxSpawned + 1 of a call
SpawnScripts == {[i \in 1..(k + 1) |-> i <= k] : k \in 0..MaxSpawned}

SyncInit ==
  /\ fs \in {BaseFs, Remove(BaseFs, GIT_DIR)}
            \cup {Put(BaseFs, GitPath, Cloned(Tracked(BaseFs), Branch(Tracked(BaseFs), {1}), reachable))
                  : reachable \in BOOLEAN}
            \cup {Put(BaseFs, GitPath, Cloned(<<>>, Branch(<<>>, {}), reachable))
                  : reachable \in BOOLEAN}
  /\ last = Idle
  /\ mem = NoMem

InRepository == ~NoRepository(fs) /\ NewCommit(Repo(fs)) < MaxCommits

\* a call of git_pull, as the handlers make it before they read
GitPull ==
  /\ last.op = "idle"
  /\ NoRepository(fs) \/ InRepository
  /\ Handled("git_pull", <<>>, <<>>, <<>>, git_pull(fs))

\* a call of git_commit_and_push, as the handlers make it after they have written
GitCommitAndPush ==
  /\ last.op = "idle"
  /\ NoRepository(fs) \/ InRepository
  /\ Handled("git_commit_and_push", <<>>, <<>>, <<>>, git_commit_and_push(fs, "Update notes"))

\* a handler writes a file of the vault
WriteFile ==
  /\ last.op = "idle"
  /\ exists(fs, person_root_path(sebastian))
  /\ \E p \in SyncFiles : fs' = write_text(fs, p, local_text).fs
  /\ UNCHANGED <<last, mem>>

\* another clone pushes a commit to the remote
RemoteCommit ==
  /\ last.op = "idle"
  /\ InRepository
  /\ \E p \in SyncFiles :
       fs' = SetRepo(fs, [Repo(fs) EXCEPT !.remote = Branch(Put(@.tree, p, File(remote_text)),
                                                           @.commits \cup {NewCommit(Repo(fs))})])
  /\ UNCHANGED <<last, mem>>

\* the remote becomes reachable or unreachable
Network ==
  /\ last.op = "idle"
  /\ ~NoRepository(fs)
  /\ fs' = SetRepo(fs, [Repo(fs) EXCEPT !.reachable = ~@])
  /\ UNCHANGED <<last, mem>>

\* a git process of another request holds the index, or a merge or rebase was left
\* unfinished; or the marker goes away
Marker ==
  /\ last.op = "idle"
  /\ ~NoRepository(fs)
  /\ \E p \in Markers :
       \/ exists(fs, p) /\ fs' = Remove(fs, p)
       \/ Undisturbed(fs) /\ fs' = Put(fs, p, File(<<>>))
  /\ UNCHANGED <<last, mem>>

\* the system runs short of processes: one of the next subprocess.run calls raises
Overload ==
  /\ last.op = "idle"
  /\ ~NoRepository(fs)
  /\ Undisturbed(fs)
  /\ \E script \in SpawnScripts : fs' = SetRepo(fs, [Repo(fs) EXCEPT !.spawn = script])
  /\ UNCHANGED <<last, mem>>

SyncNext ==
  GitPull \/ GitCommitAndPush \/ WriteFile \/ RemoteCommit \/ Network \/ Marker \/ Overload \/ Respond

SpecSync == SyncInit /\ [][SyncNext]_vars

(***************************************************************************)
(* Claims on the sync coordinator                                          *)
(***************************************************************************)
SyncCalls == {"git_pull", "git_commit_and_push"}

\* the git commands among the calls a request made
GitCommands(ran) == SelectSeq(ran, LAMBDA call : call \notin SyncCalls)

\* C18: where the vault has no git repository (no vault directory, or no .git in it),
\* git_pull and git_commit_and_push return success, run no git command and change no file
C18_NoRepository ==
  [][last'.op \in SyncCalls /\ (~exists(fs, GIT_DIR) \/ ~exists(fs, Append(GIT_DIR, dotgit))) =>
       /\ last'.err = NoErr
       /\ last'.ret.success
       /\ GitCommands(last'.ran) = <<>>
       /\ fs' = fs]_vars

\* git_pull has returned in a vault directory without .git
C18_Witness ==
  /\ last.op = "git_pull"
  /\ exists(fs, GIT_DIR) /\ ~exists(fs, Append(GIT_DIR, dotgit))
  /\ last.ret.success

\* C19: git_commit_and_push on a clean working tree returns success with the message
\* 'No changes to commit' and runs no add, no commit, no push and no pull
C19_CleanTree ==
  [][/\ last'.op = "git_commit_and_push"
     /\ ~NoRepository(fs)
     /\ Tracked(fs) = Repo(fs).head
     /\ Repo(fs).spawn = <<>>
     => /\ last'.ret = [success |-> TRUE, message |-> "No changes to commit"]
        /\ last'.ran = <<"git_commit_and_push", "git status --porcelain">>
        /\ Tracked(fs') = Tracked(fs)
        /\ Repo(fs') = Repo(fs)]_vars

\* git_commit_and_push has found a clean tree while the remote holds a commit more
C19_Witness ==
  /\ last.op = "git_commit_and_push"
  /\ last.ret.message = "No changes to commit"
  /\ Repo(fs).remote.commits # Repo(fs).commits
  /\ Repo(fs).commits # {}

\* the number of times a call ran the command
Count(ran, command) == Len(SelectSeq(ran, LAMBDA call : call = command))

\* the first push of the call failed: a pull follows it
FirstPushFailed(ran) ==
  \E i \in 1..Len(ran) :
    /\ ran[i] = "git push"
    /\ \A k \in 1..(i - 1) : ran[k] # "git push"
    /\ i < Len(ran) \/ last'.ret.message = "Changes committed locally (push failed, will retry on next sync)"

\* C20: whenever the first push of a git_commit_and_push fails, the call invokes git_pull
\* once and then pushes once more, whatever git_pull returns; no call pushes more than
\* twice or pulls more than once
C20_PullOnceRetryOnce ==
  [][last'.op = "git_commit_and_push" =>
       /\ Count(last'.ran, "git push") <= 2
       /\ Count(last'.ran, "git_pull") <= 1
       /\ FirstPushFailed(last'.ran) =>
            /\ Count(last'.ran, "git_pull") = 1
            /\ Count(last'.ran, "git push") = 2
            /\ last'.ran[Len(last'.ran)] = "git push"]_vars

SyncMessages ==
  {"No git repository", "Pulled latest changes", "Recovered by resetting to remote",
   "Git pull failed", "Error", "No git repository (notes saved locally)", "No changes to commit",
   "Changes committed and pushed", "Changes committed and pushed (after sync)",
   "Changes committed locally (push failed, will retry on next sync)",
   "Changes saved locally: error"}

\* C21: git_commit_and_push returns a result with success = true on every path (status,
\* add, commit or push failing, pull failing, an exception), and git_pull always returns a
\* (success, message) pair and never raises
C21_NeverFails ==
  [][last'.op \in SyncCalls =>
       /\ last'.err = NoErr
       /\ last'.ret.success \in BOOLEAN
       /\ last'.ret.message \in SyncMessages
       /\ last'.op = "git_commit_and_push" => last'.ret.success]_vars

\* git_commit_and_push has returned after a subprocess.run of it raised
C21_Witness ==
  /\ last.op = "git_commit_and_push"
  /\ last.ret.message = "Changes saved locally: error"
  /\ last.ret.success
  /\ Len(last.ran) > 2

\* the files a handler has written since the last commit
Written(f) == Differences(Tracked(f), Repo(f).head) \cap DOMAIN Tracked(f)

\* the remote holds no change to the file: it is there as in the last commit shared with it
RemoteUnchanged(f, p) == p \notin Differences(Repo(f).remote.tree, Repo(f).base)

\* C22: a file a handler wrote before it called git_commit_and_push still holds that content
\* when git_commit_and_push returns, provided the remote holds no change to the same file,
\* on every path, the push failing and the pull-and-retry running with the remote
\* unreachable included
C22_LocalDurability ==
  [][last'.op = "git_commit_and_push" /\ ~NoRepository(fs) =>
       \A p \in Written(fs) :
         RemoteUnchanged(fs, p) => exists(fs', p) /\ fs'[p] = fs[p]]_vars

(***************************************************************************)
(* Claims on the order of the sync calls in the endpoints                   *)
(***************************************************************************)
\* the vault-mutating endpoints among the handlers of SpecDaily
MutatingEndpoints == {"toggle_todo", "unpin_entry", "add_todo", "delete_sleep_entry"}

\* C23: a vault-mutating endpoint follows the order pull, read, write, commit_and_push: a
\* request that has written a file called git_pull before it read and git_commit_and_push
\* after it wrote
C23_PullReadWriteCommit ==
  [][last'.op \in MutatingEndpoints /\ fs' # fs =>
       \E i, j \in 1..Len(last'.ran) :
         /\ i < j
         /\ last'.ran[i] = "git_pull"
         /\ last'.ran[j] = "git_commit_and_push"]_vars

\* the place of the command among the git commands of a call, 0 where it was not run
Place(ran, command) ==
  IF \E i \in 1..Len(ran) : ran[i] = command
  THEN CHOOSE i \in 1..Len(ran) : ran[i] = command /\ \A k \in 1..(i - 1) : ran[k] # command
  ELSE 0

\* the command was run, and before the other one
Before(ran, command, other) == 0 < Place(ran, command) /\ Place(ran, command) < Place(ran, other)

\* the merge-style pull of git_pull in the repository as it is (the aborts change no branch)
PullFails(f) == git_pull_theirs(f, <<>>).returncode # 0

\* C24: in git_pull a rebase or merge left in progress is aborted before the merge-style
\* pull is attempted; the fetch and the hard reset to the remote-tracking branch run only
\* after that pull has failed; a pull that succeeds is followed by no fetch and no reset and
\* leaves every file the remote has not changed as it was
C24_AbortPullReset ==
  [][last'.op = "git_pull" /\ ~NoRepository(fs) =>
       \A ran \in {GitCommands(last'.ran)} :
         /\ Place(ran, "git pull --no-rebase -X theirs") > 0 =>
              /\ exists(fs, rebase_merge) \/ exists(fs, rebase_apply) =>
                   Before(ran, "git rebase --abort", "git pull --no-rebase -X theirs")
              /\ exists(fs, MERGE_HEAD) =>
                   Before(ran, "git merge --abort", "git pull --no-rebase -X theirs")
         /\ Place(ran, "git fetch origin") > 0 =>
              /\ Before(ran, "git pull --no-rebase -X theirs", "git fetch origin")
              /\ PullFails(fs)
         /\ Place(ran, "git reset --hard") > 0 =>
              /\ Before(ran, "git pull --no-rebase -X theirs", "git fetch origin")
              /\ Before(ran, "git fetch origin", "git reset --hard")
              /\ PullFails(fs)
         /\ Place(ran, "git pull --no-rebase -X theirs") > 0 /\ ~PullFails(fs)
            /\ last'.ret.message # "Error" =>
              /\ last'.ret = [success |-> TRUE, message |-> "Pulled latest changes"]
              /\ Place(ran, "git pull --no-rebase -X theirs") = Len(ran)
              /\ \A p \in DOMAIN Tracked(fs) :
                   RemoteUnchanged(fs, p) => exists(fs', p) /\ fs'[p] = fs[p]]_vars

\* git_pull has aborted a merge that was left, its pull has failed and it has reset the
\* branch to the remote-tracking branch
C24_Witness ==
  /\ last.op = "git_pull"
  /\ last.ran = <<"git_pull", "git merge --abort", "git pull --no-rebase -X theirs",
                  "git fetch origin", "git rev-parse --abbrev-ref HEAD", "git reset --hard">>
  /\ last.ret.message = "Recovered by resetting to remote"
  /\ ~exists(fs, MERGE_HEAD)

\* git_pull has merged the commit of the remote while a file written by a handler is not
\* committed, and the file is as written
C24_PulledWitness ==
  /\ last.op = "git_pull"
  /\ last.ret.message = "Pulled latest changes"
  /\ ~NoRepository(fs)
  /\ Written(fs) # {}
  /\ Repo(fs).commits = Repo(fs).remote.commits /\ Cardinality(Repo(fs).commits) > 1

(***************************************************************************)
(* SpecRetry: the sync coordinator over requests that keep arriving         *)
(***************************************************************************)
RetryNext ==
  GitPull \/ GitCommitAndPush \/ WriteFile \/ RemoteCommit \/ Network \/ Overload \/ Respond

\* every response is delivered
SpecRetry ==
  /\ SyncInit
  /\ [][RetryNext]_vars
  /\ WF_vars(Respond)

\* git_commit_and_push has returned with the push failed and commit c on the branch only
Unpushed(c) ==
  /\ last.op = "git_commit_and_push"
  /\ last.ret.message = "Changes committed locally (push failed, will retry on next sync)"
  /\ c \in Repo(fs).commits
  /\ c \notin Repo(fs).remote.commits

\* the remote holds commit c
Pushed(c) == ~NoRepository(fs) /\ c \in Repo(fs).remote.commits

\* the remote answers and every git process starts
Reachable == NoRepository(fs) \/ (Repo(fs).reachable /\ Undisturbed(fs))

\* C25: after git_commit_and_push has returned 'Changes committed locally (push failed,
\* will retry on next sync)', the commit left on the branch reaches the remote by the later
\* sync calls (git_pull and git_commit_and_push keep being called) once the remote is
\* reachable, whether or not a handler writes again
C25_UnpushedReachesRemote ==
  /\ []<>(last.op = "git_pull")
  /\ []<>(last.op = "git_commit_and_push")
  /\ <>[]Reachable
  => \A c \in 1..MaxCommits : [](Unpushed(c) => <>Pushed(c))

(***************************************************************************)
(* Note endpoints (main): append_note                                       *)
(***************************************************************************)
\* re.search(r'^## custom notes\s*$', current_content, re.MULTILINE | re.IGNORECASE)
HasCustomNotes(current_content) ==
  \E pos \in 0..Len(current_content) :
    /\ AtLineStart(current_content, pos)
    /\ MatchAtCI(current_content, pos, custom_header)
    /\ \/ SkipSpaces(current_content, pos + Len(custom_header)) = Len(current_content)
       \/ \E k \in (pos + Len(custom_header) + 1)..SkipSpaces(current_content, pos + Len(custom_header)) :
            current_content[k] = "\n"

\* append_note: header
entry_header(time_str, is_pinned) ==
  <<"#", "#", "#", " ">> \o time_str \o (IF is_pinned THEN <<" ">> \o pinned_marker ELSE <<>>)

\* append_note: append_text
append_note_text(current_content, header, content) ==
  IF HasCustomNotes(current_content) THEN NL \o header \o NL \o NL \o strip(content) \o NL
  ELSE NL \o custom_header \o NL \o NL \o header \o NL \o NL \o strip(content) \o NL

\* append_note once the entry is appended
append_note_appended(appended, ran) ==
  IF appended.err # NoErr THEN Ran(appended, ran)
  ELSE Answer(git_commit_and_push(appended.fs, "Append note"), "Content appended successfully", ran)

\* append_note on the content read
append_note_read(f, filepath, current_content, header, content, ran) ==
  IF current_content.err # NoErr THEN Ran(current_content, ran)
  ELSE append_note_appended(append_entry(f, relative_to_root(filepath),
                                         append_note_text(current_content.ret, header, content)),
                            ran)

\* append_note once today's note is there
append_note_ensured(ensured, filepath, header, content) ==
  IF ensured.err # NoErr THEN ensured
  ELSE append_note_read(ensured.fs, filepath, read_text(ensured.fs, filepath), header, content,
                        ensured.ran)

\* POST /api/append
append_note(f, person, content, is_pinned, now, time_str) ==
  IF strip(content) = <<>> THEN Ran(Raise(f, "HTTP 400: Content cannot be empty"), <<>>)
  ELSE append_note_ensured(ensure_file_exists(f, person, get_today_filepath(person, now), now),
                           get_today_filepath(person, now), entry_header(time_str, is_pinned), content)

(***************************************************************************)
(* SpecRace: two requests on today's note, interleaved at their filesystem  *)
(* calls                                                                    *)
(***************************************************************************)
nine == <<"0", "9", ":", "0", "0">>

TodayPath == get_today_filepath(sebastian, today)

TodayRequestPath == daily \o SLASH \o get_today_filename(today)

\* a request at its first filesystem call: what it holds in its local variables (buffer),
\* and when it looked at the file (seen), appended to it and wrote it whole (0: not yet)
Request(op, arg) ==
  [op |-> op, arg |-> arg, pc |-> "exists", buffer |-> <<>>, seen |-> 0, appended |-> 0, written |-> 0]

\* the vault without notes, with the note of the day before, with today's note
RaceFs ==
  {DailyFs,
   Put(DailyFs, get_today_filepath(sebastian, yesterday), File(ExampleNote)),
   Put(DailyFs, TodayPath, File(open_todo \o NL)),
   Put(DailyFs, TodayPath, File(open_todo \o NL \o custom_header \o NL))}

RaceInit ==
  /\ fs \in RaceFs
  /\ last = Idle
  /\ \E first \in {Request("append_note", <<"x">>), Request("toggle_todo", 1)},
        second \in {Request("append_note", <<"y">>), Request("toggle_todo", 1)} :
       mem = [clock |-> 0, requests |-> <<first, second>>]

\* request i makes its next filesystem call: the vault and its local variables after it
Stepped(i, f, request) ==
  /\ fs' = f
  /\ mem' = [clock |-> mem.clock + 1, requests |-> [mem.requests EXCEPT ![i] = request]]
  /\ UNCHANGED last

\* the request is at the call pc of the handler op
At(i, op, pc) == mem.requests[i].op = op /\ mem.requests[i].pc = pc

\* ensure_file_exists under append_note: filepath.exists()
AppendNoteExists ==
  \E i \in 1..2 :
    /\ At(i, "append_note", "exists")
    /\ Stepped(i, fs, [mem.requests[i] EXCEPT !.pc = IF exists(fs, TodayPath) THEN "read" ELSE "compose",
                                               !.seen = mem.clock + 1])

\* ensure_file_exists: mkdir, and the content composed from the most recent other note
AppendNoteCompose ==
  \E i \in 1..2 :
    /\ At(i, "append_note", "compose")
    /\ \A made \in {mkdir_parents(fs, Parent(TodayPath))} :
         Stepped(i, made.fs,
                 [mem.requests[i] EXCEPT
                    !.pc = IF made.err = NoErr THEN "write" ELSE "raised",
                    !.buffer = IF made.err = NoErr
                               THEN compose_note(made.fs, get_most_recent_note(made.fs, sebastian, today), today)
                               ELSE <<>>])

\* ensure_file_exists: filepath.write_text(content), git_commit_and_push
AppendNoteWrite ==
  \E i \in 1..2 :
    /\ At(i, "append_note", "write")
    /\ \A written \in {create_note_written(write_text(fs, TodayPath, mem.requests[i].buffer), today)} :
         Stepped(i, written.fs,
                 [mem.requests[i] EXCEPT !.pc = IF written.err = NoErr THEN "read" ELSE "raised",
                                         !.written = mem.clock + 1])

\* append_note: current_content = filepath.read_text()
AppendNoteRead ==
  \E i \in 1..2 :
    /\ At(i, "append_note", "read")
    /\ \A current_content \in {read_text(fs, TodayPath)} :
         Stepped(i, fs,
                 [mem.requests[i] EXCEPT
                    !.pc = IF current_content.err = NoErr THEN "append" ELSE "raised",
                    !.buffer = IF current_content.err = NoErr THEN current_content.ret ELSE <<>>])

\* append_note: append_entry, git_commit_and_push
AppendNoteAppend ==
  \E i \in 1..2 :
    /\ At(i, "append_note", "append")
    /\ \A appended \in {append_note_read(fs, TodayPath, Return(fs, mem.requests[i].buffer),
                                         entry_header(nine, FALSE), mem.requests[i].arg, <<>>)} :
         Stepped(i, appended.fs,
                 [mem.requests[i] EXCEPT !.pc = IF appended.err = NoErr THEN "done" ELSE "raised",
                                         !.appended = mem.clock + 1])

\* toggle_todo: resolve_path, filepath.exists()
ToggleTodoExists ==
  \E i \in 1..2 :
    /\ At(i, "toggle_todo", "exists")
    /\ \A filepath \in {resolve_path(fs, person_relative_path(sebastian, TodayRequestPath))} :
         Stepped(i, fs,
                 [mem.requests[i] EXCEPT
                    !.pc = IF filepath.err = NoErr /\ exists(fs, filepath.ret) THEN "read" ELSE "raised"])

\* toggle_todo: content = filepath.read_text(), and the line looked at
ToggleTodoRead ==
  \E i \in 1..2 :
    /\ At(i, "toggle_todo", "read")
    /\ \A content \in {read_text(fs, TodayPath)} :
         Stepped(i, fs,
                 [mem.requests[i] EXCEPT
                    !.pc = IF content.err # NoErr \/ mem.requests[i].arg > Len(splitlines(content.ret))
                           THEN "raised"
                           ELSE IF toggle_line(ListItem(splitlines(content.ret), mem.requests[i].arg - 1)).task
                           THEN "write" ELSE "done",
                    !.buffer = IF content.err = NoErr THEN content.ret ELSE <<>>,
                    !.seen = mem.clock + 1])

\* toggle_todo: filepath.write_text(updated_content), git_commit_and_push
ToggleTodoWrite ==
  \E i \in 1..2 :
    /\ At(i, "toggle_todo", "write")
    /\ \A written \in {toggle_todo_lines(fs, TodayPath, mem.requests[i].buffer,
                                         splitlines(mem.requests[i].buffer), mem.requests[i].arg)} :
         Stepped(i, written.fs,
                 [mem.requests[i] EXCEPT !.pc = IF written.err = NoErr THEN "done" ELSE "raised",
                                         !.written = mem.clock + 1])

RaceNext ==
  \/ AppendNoteExists \/ AppendNoteCompose \/ AppendNoteWrite \/ AppendNoteRead \/ AppendNoteAppend
  \/ ToggleTodoExists \/ ToggleTodoRead \/ ToggleTodoWrite

SpecRace == RaceInit /\ [][RaceNext]_vars

(***************************************************************************)
(* Claims on concurrent requests                                            *)
(***************************************************************************)
\* both requests have finished
Finished == \A i \in 1..2 : mem.requests[i].pc \in {"done", "raised"}

\* the entry request i appends
EntryOf(i) == entry_header(nine, FALSE) \o NL \o NL \o mem.requests[i].arg \o NL

\* the appends that completed
Appended == {i \in 1..2 : mem.requests[i].op = "append_note" /\ mem.requests[i].appended > 0}

\* exactly one file is today's note
OneDailyNote ==
  /\ Cardinality({n \in iterdir(fs, Parent(TodayPath)) : n = get_today_filename(today)}) = 1
  /\ fs[TodayPath].kind = "file"

\* request j wrote the whole file after the append of request i, from what it had seen of
\* the file before that append
WroteOver(j, i) ==
  /\ mem.requests[j].written > mem.requests[i].appended
  /\ mem.requests[j].seen < mem.requests[i].appended

\* C26: when the two requests have finished, exactly one daily note file exists for the day
\* and every entry whose append completed is present in it
C26_NoEntryLost ==
  Finished /\ Appended # {} =>
    /\ OneDailyNote
    /\ \A i \in Appended : Contains(fs[TodayPath].data, EntryOf(i))

\* C26 as amended: when the two requests have finished, exactly one daily note file exists
\* for the day, and an entry whose append completed is present in it unless the other
\* request wrote the whole file after that append from what it had seen before it
C26_LastWriterWins ==
  Finished /\ Appended # {} =>
    /\ OneDailyNote
    /\ \A i \in Appended :
         \/ Contains(fs[TodayPath].data, EntryOf(i))
         \/ \E j \in 1..2 \ {i} : WroteOver(j, i)

\* both requests have appended, the second after it had created the note over the entry of
\* the first: one entry is in the note, the other is not
C26_Witness ==
  /\ Finished
  /\ Appended = {1, 2}
  /\ Contains(fs[TodayPath].data, EntryOf(2))
  /\ ~Contains(fs[TodayPath].data, EntryOf(1))
  /\ WroteOver(2, 1)

(***************************************************************************)
(* SpecCarry: the materializer over consecutive days                        *)
(***************************************************************************)
day_after == <<"2","0","2","4","-","0","1","-","0","4">>

\* the days on which the note is asked for, after the day of the first note
CarryDays == <<today, tomorrow, day_after>>

\* the first note is a note of the section engine's vocabulary or the scenario's note,
\* written by the user on the day before; mem holds the clock and the days whose note
\* ensure_file_exists has created
CarryInit ==
  /\ fs \in {Put(DailyFs, NotePath, File(doc)) : doc \in TodoDocs \cup PinnedDocs \cup {ExampleNote}}
  /\ last = Idle
  /\ mem = [day |-> 1, created |-> {}]

\* a request of the day reaches ensure_file_exists
CarryEnsure ==
  /\ last.op = "idle"
  /\ \A now \in {CarryDays[mem.day]} :
       \A r \in {ensure_file_exists(fs, sebastian, get_today_filepath(sebastian, now), now)} :
         /\ fs' = r.fs
         /\ last' = [op |-> "ensure_file_exists", person |-> sebastian,
                     path |-> get_today_filepath(sebastian, now), arg |-> now,
                     err |-> r.err, ret |-> r.ret, ran |-> r.ran]
         /\ mem' = [mem EXCEPT !.created = IF exists(fs, get_today_filepath(sebastian, now))
                                           THEN @ ELSE @ \cup {now}]

\* the date changes
Midnight ==
  /\ last.op = "idle"
  /\ mem.day < Len(CarryDays)
  /\ mem' = [mem EXCEPT !.day = @ + 1]
  /\ UNCHANGED <<fs, last>>

CarryNext == CarryEnsure \/ Midnight \/ Respond

SpecCarry == CarryInit /\ [][CarryNext]_vars

(***************************************************************************)
(* Claims on the carry-forward                                              *)
(***************************************************************************)
\* C27: carry-forward is a fixed point over days: the note created from a note that
\* ensure_file_exists created (and nobody edited) has an identical todos section and an
\* identical custom notes section, so the pinned entries and the blank lines between them
\* neither change nor grow
C27_CarryFixedPoint ==
  [][/\ last'.op = "ensure_file_exists"
     /\ ~exists(fs, last'.path)
     /\ last'.err = NoErr
     /\ \E day \in mem.created :
          get_most_recent_note(fs, sebastian, last'.arg) = get_today_filepath(sebastian, day)
     => \A name \in {todos, custom_notes} :
          extract_section(fs', last'.path, name)
            = extract_section(fs, get_most_recent_note(fs, sebastian, last'.arg), name)]_vars

(***************************************************************************)
(* Note endpoints (main): clear_pinned                                      *)
(***************************************************************************)
IsDigit(c) == c \in {"0", "1", "2", "3", "4", "5", "6", "7", "8", "9"}

\* the length of "### " and of \d{2}:\d{2}
TimedHeaderLen == 9

\* where a match of ^(### \d{2}:\d{2})\s*<pinned> that starts at pos ends (MULTILINE,
\* IGNORECASE), NoMatch for none
TimedPinnedEnd(s, pos) ==
  IF /\ AtLineStart(s, pos)
     /\ MatchAt(s, pos, <<"#", "#", "#", " ">>)
     /\ pos + TimedHeaderLen <= Len(s)
     /\ IsDigit(s[pos + 5]) /\ IsDigit(s[pos + 6]) /\ s[pos + 7] = ":"
     /\ IsDigit(s[pos + 8]) /\ IsDigit(s[pos + 9])
     /\ MatchAtCI(s, SkipSpaces(s, pos + TimedHeaderLen), pinned_marker)
  THEN SkipSpaces(s, pos + TimedHeaderLen) + Len(pinned_marker)
  ELSE NoMatch

RECURSIVE clear_markers(_, _)
\* re.sub(r'^(### \d{2}:\d{2})\s*<pinned>', r'\1', content, flags=re.MULTILINE | re.IGNORECASE)
\* from the position start on: every match, left to right
clear_markers(content, start) ==
  LET starts == {pos \in start..Len(content) : TimedPinnedEnd(content, pos) # NoMatch}
  IN IF starts = {} THEN Slice(content, start, Len(content))
     ELSE Slice(content, start, Min(starts) + TimedHeaderLen)
          \o clear_markers(content, TimedPinnedEnd(content, Min(starts)))

\* clear_pinned once the file is written
clear_pinned_written(written) ==
  IF written.err # NoErr THEN Ran(written, <<>>)
  ELSE Answer(git_commit_and_push(written.fs, "Clear pinned markers"), "Pinned markers cleared", <<>>)

\* clear_pinned on the content read
clear_pinned_content(f, filepath, content) ==
  IF content.err # NoErr THEN Ran(content, <<>>)
  ELSE IF content.ret = clear_markers(content.ret, 0)
  THEN Ran(Return(f, Json(TRUE, "No pinned notes to clear")), <<>>)
  ELSE clear_pinned_written(write_text(f, filepath, clear_markers(content.ret, 0)))

\* POST /api/clear-pinned
clear_pinned(f, person, now) ==
  IF ~exists(f, get_today_filepath(person, now))
  THEN Ran(Return(f, Json(TRUE, "No notes to clear")), <<>>)
  ELSE clear_pinned_content(f, get_today_filepath(person, now),
                            read_text(f, get_today_filepath(person, now)))

(***************************************************************************)
(* SpecClear: clear_pinned on today's note, and the note of the next day     *)
(***************************************************************************)
timed_pinned == <<"#","#","#"," ","0","9",":","0","0"," ","<","p","i","n","n","e","d",">">>

timed_PINNED == <<"#","#","#"," ","1","0",":","3","0","<","P","i","n","n","e","d",">"," ","b">>

timed_plain == <<"#","#","#"," ","0","9",":","0","0">>

titled_pinned == <<"#","#","#"," ","0","9",":","0","0"," ","a"," ","<","p","i","n","n","e","d",">">>

\* header lines as append_note writes them and as an editor of the file may write them
ClearLines == {timed_pinned, timed_PINNED, timed_plain, titled_pinned, pinned_entry, <<"x">>}

ClearDocs == {DocOf(<<custom_header>> \o ls, TRUE) : ls \in LineSeqs(ClearLines, MaxSectionLines)}

\* today's note holds the document, or there is no note; mem says whether clear_pinned has
\* run on today's note
ClearInit ==
  /\ fs \in {DailyFs} \cup {Put(DailyFs, TodayPath, File(doc)) : doc \in ClearDocs}
  /\ last = Idle
  /\ mem = [cleared |-> FALSE]

\* the call of a handler of today's or tomorrow's date
Cleared(op, now, r, cleared) ==
  /\ fs' = r.fs
  /\ last' = [op |-> op, person |-> sebastian, path |-> get_today_filepath(sebastian, now),
              arg |-> now, err |-> r.err, ret |-> r.ret, ran |-> r.ran]
  /\ mem' = [cleared |-> cleared]

ClearPinned ==
  /\ last.op = "idle"
  /\ ~exists(fs, get_today_filepath(sebastian, tomorrow))
  /\ Cleared("clear_pinned", today, clear_pinned(fs, sebastian, today), exists(fs, TodayPath))

\* the first request of the next day
EnsureNextDay ==
  /\ last.op = "idle"
  /\ Cleared("ensure_file_exists", tomorrow,
             ensure_file_exists(fs, sebastian, get_today_filepath(sebastian, tomorrow), tomorrow),
             mem.cleared)

ClearNext == ClearPinned \/ EnsureNextDay \/ Respond

SpecClear == ClearInit /\ [][ClearNext]_vars

(***************************************************************************)
(* Claims on clear_pinned                                                   *)
(***************************************************************************)
\* the ### header lines of the file that carry the marker
PinnedHeaders(f, p) ==
  {i \in 1..Len(splitlines(read_text(f, p).ret)) : IsPinnedLine(splitlines(read_text(f, p).ret)[i])}

\* C28: after clear_pinned has run on today's note, no ### header of the note carries a
\* <pinned> marker, extract_pinned_notes on the note returns the empty string and no entry
\* is carried into the note of the next day, whatever text the pinned headers had
C28_ClearedNothingPinned ==
  mem.cleared =>
    /\ PinnedHeaders(fs, TodayPath) = {}
    /\ extract_pinned_notes(fs, TodayPath) = <<>>
    /\ exists(fs, get_today_filepath(sebastian, tomorrow)) =>
         extract_section(fs, get_today_filepath(sebastian, tomorrow), custom_notes) = <<>>

(***************************************************************************)
(* Chat sessions (claude_service)                                          *)
(***************************************************************************)
\* the most chat requests of a run
MaxChats == 3

\* str(uuid.uuid4()): the n-th identifier drawn, never drawn twice
uuid4(n) == <<"u","u","i","d","-">> \o <<<<"1","2","3","4","5","6","7","8","9","a","b","c","d","e","f">>[n]>>

\* _sessions at import: no session
NoSessions == [s \in {} |-> s]

ChatMessage(role, content) == [role |-> role, content |-> content]

Session(session_id, person) ==
  [session_id |-> session_id, person |-> person, messages |-> <<>>, agent_session_id |-> None]

\* claude_service.get_or_create_session: the sessions, the identifiers drawn and the session returned
get_or_create_session(sessions, created, session_id, person) ==
  IF session_id # None /\ session_id \in DOMAIN sessions /\ sessions[session_id].person = person
  THEN [sessions |-> sessions, created |-> created, session_id |-> session_id]
  ELSE [sessions |-> [s \in DOMAIN sessions \cup {uuid4(created + 1)} |->
                        IF s = uuid4(created + 1) THEN Session(s, person) ELSE sessions[s]],
        created |-> created + 1, session_id |-> uuid4(created + 1)]

\* claude_service.clear_session
clear_session(sessions, session_id) ==
  IF session_id \in DOMAIN sessions
  THEN [sessions |-> [s \in DOMAIN sessions \ {session_id} |-> sessions[s]], ret |-> TRUE]
  ELSE [sessions |-> sessions, ret |-> FALSE]

\* claude_service.get_session_history
get_session_history(sessions, session_id) ==
  IF session_id \in DOMAIN sessions THEN Return(sessions, sessions[session_id].messages)
  ELSE Raise(sessions, "None")

WEBFETCH_LOG_DIR == VAULT_ROOT \o <<<<"c","l","a","u","d","e">>, <<"w","e","b","f","e","t","c","h","_","l","o","g","s">>>>

\* datetime.now().strftime("%Y-%m-%d %H:%M:%S") of the chat requests
Timestamp == <<"2","0","2","4","-","0","1","-","0","2"," ","0","9",":","0","0",":","0","0">>

\* log_webfetch after the write of the entry
log_webfetch_written(written) ==
  IF written.err # NoErr THEN written.fs
  ELSE git_commit_and_push(written.fs, "Log WebFetch request").fs

\* log_webfetch after WEBFETCH_LOG_DIR.mkdir
log_webfetch_made(made, entry) ==
  IF made.err # NoErr THEN made.fs
  ELSE log_webfetch_written(append_text(made.fs, Append(WEBFETCH_LOG_DIR, <<"r","e","q","u","e","s","t","s",".","m","d">>), entry))

\* claude_service.log_webfetch; the caller catches what it raises
log_webfetch(f, fetched, person) ==
  log_webfetch_made(mkdir_parents(git_pull(f).fs, WEBFETCH_LOG_DIR),
                    <<"-"," ","[">> \o Timestamp \o <<"]"," ","(">> \o person \o <<")"," ">> \o fetched \o <<"\n">>)

TextBlock(text) == [type |-> "text", text |-> text]

\* a tool call whose input holds one key
ToolUseBlock(name, key, value) ==
  [type |-> "tool", name |-> name, input |-> [key |-> key, value |-> value]]

WebFetch == <<"W","e","b","F","e","t","c","h">>

url == <<"u","r","l">>

\* block.input.get("url", "")
input_get(input, key) == IF input.key = key THEN input.value ELSE <<>>

\* what query() yields: one AssistantMessage with these blocks and the session_id of the
\* agent, and then the end of the iteration or an exception
QueryScripts ==
  [content : {<<>>, <<TextBlock(<<"r">>)>>, <<TextBlock(<<>>), ToolUseBlock(<<"R","e","a","d">>, <<"f","i","l","e","_","p","a","t","h">>, a_md)>>,
              <<ToolUseBlock(WebFetch, url, <<"a",".","b">>), TextBlock(<<"r">>)>>},
   raises : BOOLEAN]

\* response_text after the blocks of a message
RECURSIVE response_text(_)
response_text(content) ==
  IF content = <<>> THEN <<>>
  ELSE (IF Head(content).type = "text" THEN Head(content).text ELSE <<>>)
       \o response_text(Tail(content))

\* the vault after the WebFetch blocks of a message are logged
RECURSIVE logged(_, _, _)
logged(f, content, person) ==
  IF content = <<>> THEN f
  ELSE logged(IF Head(content).type = "tool" /\ Head(content).name = WebFetch
              THEN log_webfetch(f, input_get(Head(content).input, url), person) ELSE f,
              Tail(content), person)

\* the session with one more message
Said(sessions, session_id, role, content) ==
  [sessions EXCEPT ![session_id].messages = Append(@, ChatMessage(role, content))]

\* chat, chat_stream: the session_id of the agent is kept for resuming
Resumable(sessions, session_id) ==
  [sessions EXCEPT ![session_id].agent_session_id = <<"a","g","e","n","t">>]

\* chat after the query
chat_answered(f, sessions, created, session_id, script) ==
  IF script.raises
  THEN [fs |-> f, sessions |-> sessions, created |-> created, err |-> "Exception", ret |-> None]
  ELSE [fs |-> f,
        sessions |-> Said(sessions, session_id, "assistant", response_text(script.content)),
        created |-> created, err |-> NoErr,
        ret |-> [session_id |-> session_id, response |-> response_text(script.content)]]

\* chat with its session
chat_session(f, got, message, person, script) ==
  chat_answered(logged(f, script.content, person),
                Resumable(Said(got.sessions, got.session_id, "user", message), got.session_id),
                got.created, got.session_id, script)

\* claude_service.chat
chat(f, sessions, created, session_id, message, person, script) ==
  chat_session(f, get_or_create_session(sessions, created, session_id, person), message, person,
               script)

\* claude_chat after chat
claude_chat_done(done) ==
  IF done.err # NoErr
  THEN [done EXCEPT !.err = NoErr,
                    !.ret = [success |-> FALSE, message |-> "Exception", response |-> <<>>,
                             history |-> <<>>]]
  ELSE [done EXCEPT !.ret = [success |-> TRUE, session_id |-> done.ret.session_id,
                             response |-> done.ret.response,
                             history |-> done.sessions[done.ret.session_id].messages]]

\* POST /api/claude/chat
claude_chat(f, sessions, created, session_id, message, person, script) ==
  claude_chat_done(chat(f, sessions, created, session_id, message, person, script))

\* GET /api/claude/history
claude_history(sessions, person, session_id) ==
  IF get_session_history(sessions, session_id).err # NoErr
  THEN [success |-> FALSE, message |-> "Session not found", history |-> <<>>]
  ELSE [success |-> TRUE, history |-> get_session_history(sessions, session_id).ret]

\* claude_clear after clear_session
claude_cleared(cleared) ==
  [sessions |-> cleared.sessions,
   ret |-> [success |-> cleared.ret,
            message |-> IF cleared.ret THEN "Session cleared" ELSE "Session not found"]]

\* POST /api/claude/clear
claude_clear(sessions, person, session_id) == claude_cleared(clear_session(sessions, session_id))

(***************************************************************************)
(* SpecChat: chat, history and clear requests of the two persons           *)
(***************************************************************************)
hello == <<"h","i">>

ChatInit ==
  /\ fs = BaseFs
  /\ last = Idle
  /\ mem = [sessions |-> NoSessions, created |-> 0, chats |-> 0]

\* the session_id values of a request: none, or an identifier some response has carried
SessionIds == {None} \cup {uuid4(n) : n \in 1..mem.created}

\* a chat request is answered
Chatted(op, person, session_id, done) ==
  /\ fs' = done.fs
  /\ last' = [op |-> op, person |-> person, path |-> <<>>,
              arg |-> [session_id |-> session_id, message |-> hello], err |-> done.err,
              ret |-> done.ret]
  /\ mem' = [sessions |-> done.sessions, created |-> done.created, chats |-> mem.chats + 1]

ClaudeChat ==
  /\ last.op = "idle"
  /\ mem.chats < MaxChats
  /\ \E person \in PERSONS, session_id \in SessionIds, script \in QueryScripts :
     \E done \in {claude_chat(fs, mem.sessions, mem.created, session_id, hello, person, script)} :
       Chatted("claude_chat", person, session_id, done)

ClaudeHistory ==
  /\ last.op = "idle"
  /\ \E person \in PERSONS, session_id \in SessionIds \ {None} :
       /\ last' = [op |-> "claude_history", person |-> person, path |-> <<>>,
                   arg |-> [session_id |-> session_id], err |-> NoErr,
                   ret |-> claude_history(mem.sessions, person, session_id)]
       /\ UNCHANGED <<fs, mem>>

ClaudeClear ==
  /\ last.op = "idle"
  /\ \E person \in PERSONS, session_id \in SessionIds \ {None} :
     \E done \in {claude_clear(mem.sessions, person, session_id)} :
       /\ last' = [op |-> "claude_clear", person |-> person, path |-> <<>>,
                   arg |-> [session_id |-> session_id], err |-> NoErr, ret |-> done.ret]
       /\ mem' = [mem EXCEPT !.sessions = done.sessions]
       /\ UNCHANGED fs

ChatNext == ClaudeChat \/ ClaudeHistory \/ ClaudeClear \/ Respond

SpecChat == ChatInit /\ [][ChatNext]_vars

(***************************************************************************)
(* Claims on chat sessions                                                 *)
(***************************************************************************)
ChatOps == {"claude_chat", "claude_history", "claude_clear"}

\* the response of the step carries the messages of session s
ReturnsMessagesOf(s) ==
  /\ last'.ret.success
  /\ \/ last'.op = "claude_history"
     \/ last'.op = "claude_chat" /\ last'.ret.session_id = s

\* C29: a request made as person q with the session_id of a session that person p (not q)
\* created never returns the messages of that session, never appends to them and never
\* deletes the session
C29_SessionOwnership ==
  [][\A s \in DOMAIN mem.sessions :
       (/\ last'.op \in ChatOps
        /\ last'.arg.session_id = s
        /\ mem.sessions[s].person # last'.person)
       => /\ s \in DOMAIN mem'.sessions
          /\ mem'.sessions[s].messages = mem.sessions[s].messages
          /\ ~ReturnsMessagesOf(s)]_vars

(***************************************************************************)
(* Chat stream (claude_service.chat_stream, main.claude_chat_stream)       *)
(***************************************************************************)
\* the most chat-stream requests of a run
MaxStreams == 1

\* the most ping events of one response
MaxPings == 2

\* the events chat_stream yields and those the producer adds
TextEvent(delta) == [type |-> "text", delta |-> delta]

ToolEvent(block) == [type |-> "tool", name |-> block.name, input |-> block.input]

DoneEvent(session_id) == [type |-> "done", session_id |-> session_id]

ErrorEvent(message) == [type |-> "error", message |-> message]

PingEvent == [type |-> "ping"]

done_marker == [type |-> "_stream_done"]

\* json.dumps of a str without characters to escape
JsonStr(text) == <<"\"">> \o text \o <<"\"">>

\* json.dumps of a dict of str values, given as a sequence of key and value pairs
RECURSIVE JsonItems(_)
JsonItems(items) ==
  IF items = <<>> THEN <<>>
  ELSE JsonStr(Head(items)[1]) \o <<":"," ">> \o Head(items)[2]
       \o (IF Len(items) > 1 THEN <<","," ">> ELSE <<>>) \o JsonItems(Tail(items))

JsonDict(items) == <<"{">> \o JsonItems(items) \o <<"}">>

\* json.dumps(event, default=str) + "\n": the line of the response
json_dumps(event) ==
  JsonDict(<<<<<<"t","y","p","e">>, JsonStr(
                 CASE event.type = "text" -> <<"t","e","x","t">>
                   [] event.type = "tool" -> <<"t","o","o","l">>
                   [] event.type = "done" -> <<"d","o","n","e">>
                   [] event.type = "error" -> <<"e","r","r","o","r">>
                   [] event.type = "ping" -> <<"p","i","n","g">>
                   [] event.type = "_stream_done" -> <<"_","s","t","r","e","a","m","_","d","o","n","e">>)>>>>
           \o (CASE event.type = "text" -> <<<<<<"d","e","l","t","a">>, JsonStr(event.delta)>>>>
                 [] event.type = "tool" ->
                      <<<<<<"n","a","m","e">>, JsonStr(event.name)>>,
                        <<<<"i","n","p","u","t">>, JsonDict(<<<<event.input.key, JsonStr(event.input.value)>>>>)>>>>
                 [] event.type = "done" -> <<<<<<"s","e","s","s","i","o","n","_","i","d">>, JsonStr(event.session_id)>>>>
                 [] event.type = "error" -> <<<<<<"m","e","s","s","a","g","e">>, JsonStr(event.message)>>>>
                 [] OTHER -> <<>>))
  \o <<"\n">>

\* chat_stream: the events of one block of a message
block_events(block) ==
  IF block.type = "text" THEN (IF block.text # <<>> THEN <<TextEvent(block.text)>> ELSE <<>>)
  ELSE <<ToolEvent(block)>>

\* the stream between two requests
NoStream ==
  [person |-> <<>>, session_id |-> None, content |-> <<>>, raises |-> FALSE,
   response_text |-> <<>>, producer |-> "none", queue |-> <<>>, produced |-> <<>>,
   consumer |-> "none", sent |-> <<>>, pings |-> 0]

\* event_stream: create_task(producer()), and chat_stream up to its query
chat_stream_entered(got, person, script) ==
  [sessions |-> Said(got.sessions, got.session_id, "user", hello),
   created |-> got.created,
   stream |-> [NoStream EXCEPT !.person = person, !.session_id = got.session_id,
                               !.content = script.content, !.raises = script.raises,
                               !.producer = "query", !.consumer = "waiting"]]

\* producer: await queue.put(event) for each of the events, in their order
queue_put(stream, events) ==
  [stream EXCEPT !.queue = @ \o events, !.produced = @ \o events]

\* chat_stream: one block of the message is handled and its events are put
chat_stream_block(stream) ==
  [queue_put(stream, block_events(Head(stream.content)))
     EXCEPT !.content = Tail(@),
            !.response_text = @ \o response_text(<<Head(stream.content)>>)]

\* producer: except Exception, finally
producer_raised(stream) ==
  [queue_put(queue_put(stream, <<ErrorEvent(<<"E","x","c","e","p","t","i","o","n">>)>>), <<done_marker>>)
     EXCEPT !.producer = "finished"]

\* chat_stream after the last message (the done event), and the finally of producer
producer_returned(stream) ==
  [queue_put(queue_put(stream, <<DoneEvent(stream.session_id)>>), <<done_marker>>)
     EXCEPT !.producer = "finished"]

\* the break of event_stream is taken at the done event as well
event_stream_got_done(stream) ==
  IF Head(stream.queue).type \in {"done", "_stream_done"}
  THEN [stream EXCEPT !.queue = Tail(@), !.consumer = "ended"]
  ELSE [stream EXCEPT !.queue = Tail(@), !.sent = Append(@, json_dumps(Head(stream.queue)))]

\* event_stream: queue.get() has returned an event
event_stream_got(stream) ==
  IF Head(stream.queue) = done_marker
  THEN [stream EXCEPT !.queue = Tail(@), !.consumer = "ended"]
  ELSE [stream EXCEPT !.queue = Tail(@), !.sent = Append(@, json_dumps(Head(stream.queue)))]

\* event_stream: asyncio.TimeoutError
event_stream_timeout(stream) ==
  [stream EXCEPT !.sent = Append(@, json_dumps(PingEvent)), !.pings = @ + 1]

(***************************************************************************)
(* SpecStream: chat-stream requests, the producer task and the response    *)
(***************************************************************************)
\* the process after its start, and after one chat of sebastian that was answered or raised
StreamStarts ==
  {[fs |-> BaseFs, sessions |-> NoSessions, created |-> 0]}
  \cup {claude_chat(BaseFs, NoSessions, 0, None, hello, sebastian, script) :
          script \in {s \in QueryScripts : Len(s.content) = 1}}

StreamInit ==
  /\ last = Idle
  /\ \E before \in StreamStarts :
       /\ fs = before.fs
       /\ mem = [sessions |-> before.sessions, created |-> before.created, streams |-> 0,
                 stream |-> NoStream]

\* POST /api/claude/chat-stream: the response starts and the producer task runs to its query
ClaudeChatStream ==
  /\ last.op = "idle"
  /\ mem.streams < MaxStreams
  /\ \E person \in PERSONS, session_id \in SessionIds, script \in QueryScripts :
     \E entered \in {chat_stream_entered(
                       get_or_create_session(mem.sessions, mem.created, session_id, person),
                       person, script)} :
       /\ last' = [op |-> "claude_chat_stream", person |-> person, path |-> <<>>,
                   arg |-> [session_id |-> session_id, message |-> hello], err |-> NoErr,
                   ret |-> None]
       /\ mem' = [sessions |-> entered.sessions, created |-> entered.created,
                  streams |-> mem.streams + 1, stream |-> entered.stream]
       /\ UNCHANGED fs

\* the producer task handles the next block of the message
ProduceBlock ==
  /\ last.op = "claude_chat_stream"
  /\ mem.stream.producer = "query"
  /\ mem.stream.content # <<>>
  /\ fs' = logged(fs, <<Head(mem.stream.content)>>, mem.stream.person)
  /\ mem' = [mem EXCEPT !.stream = chat_stream_block(@)]
  /\ UNCHANGED last

\* the query raises, and the producer task ends
ProduceRaise ==
  /\ last.op = "claude_chat_stream"
  /\ mem.stream.producer = "query"
  /\ mem.stream.content = <<>>
  /\ mem.stream.raises
  /\ mem' = [mem EXCEPT !.sessions = Resumable(@, mem.stream.session_id),
                        !.stream = producer_raised(@)]
  /\ UNCHANGED <<fs, last>>

\* the query ends, chat_stream keeps the answer and the producer task ends
ProduceDone ==
  /\ last.op = "claude_chat_stream"
  /\ mem.stream.producer = "query"
  /\ mem.stream.content = <<>>
  /\ ~mem.stream.raises
  /\ mem' = [mem EXCEPT !.sessions = Said(Resumable(@, mem.stream.session_id),
                                          mem.stream.session_id, "assistant",
                                          mem.stream.response_text),
                        !.stream = producer_returned(@)]
  /\ UNCHANGED <<fs, last>>

\* the response takes the next event of the queue
Consume ==
  /\ last.op = "claude_chat_stream"
  /\ mem.stream.consumer = "waiting"
  /\ mem.stream.queue # <<>>
  /\ mem' = [mem EXCEPT !.stream = event_stream_got(@)]
  /\ UNCHANGED <<fs, last>>

\* five seconds pass with nothing in the queue
Ping ==
  /\ last.op = "claude_chat_stream"
  /\ mem.stream.consumer = "waiting"
  /\ mem.stream.queue = <<>>
  /\ mem.stream.pings < MaxPings
  /\ mem' = [mem EXCEPT !.stream = event_stream_timeout(@)]
  /\ UNCHANGED <<fs, last>>

\* the response is complete and the next request may arrive
StreamClose ==
  /\ last.op = "claude_chat_stream"
  /\ mem.stream.consumer = "ended"
  /\ last' = Idle
  /\ mem' = [mem EXCEPT !.stream = NoStream]
  /\ UNCHANGED fs

StreamNext ==
  \/ ClaudeChatStream \/ ProduceBlock \/ ProduceRaise \/ ProduceDone
  \/ Consume \/ Ping \/ StreamClose

\* the event loop runs the response whenever the queue holds an event
SpecStream == StreamInit /\ [][StreamNext]_vars /\ WF_vars(Consume)

(***************************************************************************)
(* Claims on the chat stream                                               *)
(***************************************************************************)
\* the lines of the events: what a response that sends each of them once, in order, holds
RECURSIVE Lines(_)
Lines(events) ==
  IF events = <<>> THEN <<>>
  ELSE (IF Head(events) = done_marker THEN <<>> ELSE <<json_dumps(Head(events))>>)
       \o Lines(Tail(events))

\* the lines of the response without the pings
NoPings(sent) == SelectSeq(sent, LAMBDA line : line # json_dumps(PingEvent))

IsPrefix(s, t) == Len(s) <= Len(t) /\ s = SubSeq(t, 1, Len(s))

ErrorLines(sent) == SelectSeq(sent, LAMBDA line : line = json_dumps(ErrorEvent(<<"E","x","c","e","p","t","i","o","n">>)))

\* C30: the chat-stream response emits every event the producer produced, in production
\* order and each once, with pings only while the queue is empty; it emits one error event
\* if the producer raises; it does not end while a produced event is unsent, and it ends
\* once the producer has finished
C30_StreamDelivers ==
  /\ [](IsPrefix(NoPings(mem.stream.sent), Lines(mem.stream.produced)))
  /\ [](NoPings(mem.stream.sent) \o Lines(mem.stream.queue) = Lines(mem.stream.produced))
  /\ [](mem.stream.consumer = "ended"
          => /\ NoPings(mem.stream.sent) = Lines(mem.stream.produced)
             /\ Len(ErrorLines(mem.stream.sent)) = (IF mem.stream.raises THEN 1 ELSE 0))
  /\ [][Len(mem'.stream.sent) > Len(mem.stream.sent) /\ mem.stream.queue # <<>>
          => mem'.stream.sent = Append(mem.stream.sent, json_dumps(Head(mem.stream.queue)))]_vars
  /\ (mem.stream.producer = "finished" ~> mem.stream.consumer = "ended")

\* a response has ended after a text event, a ping and the error event of a raising producer
C30_Witness ==
  /\ mem.stream.consumer = "ended"
  /\ mem.stream.raises
  /\ mem.stream.pings > 0
  /\ Len(mem.stream.produced) > 2
  /\ mem.stream.sent[Len(mem.stream.sent)] = json_dumps(ErrorEvent(<<"E","x","c","e","p","t","i","o","n">>))

====
